---- MODULE Spec2Model ----
(***************************************************************************)
(* GitHub Material Icons userscript: icon resolution (getFileIcon,         *)
(* getFolderIcon) and the DOM reconciliation engine (replaceIconForItem,   *)
(* replaceIconForTreeItem, replaceIcons, the MutationObserver callback of  *)
(* init) generated by scripts/build.js, and the scripts that prepare the   *)
(* table: fetchIcons (copyIconConfigs, parseTypeScriptConfigs,             *)
(* copyNeededIcons) and buildIconMappings.                                 *)
(*                                                                         *)
(* Strings are sequences of one-character strings, so split, trim,         *)
(* startsWith, substring and toLowerCase are computed as the code does.    *)
(***************************************************************************)
EXTENDS Integers, Sequences, FiniteSets, TLC

(***************************************************************************)
(* Bounds of the exploration.                                              *)
(***************************************************************************)
\* number of mutations the host page / the other extension performs in a run
MaxHostOps == 3
\* number of dot-separated segments of the file names handed to getFileIcon
MaxSegments == 3
\* number of leading dots of the folder names handed to getFolderIcon
MaxDots == 2
\* the calls of a sequence of calls of the resolution functions
MaxCalls == 3
\* number of tokens of an upstream definitions file
MaxTokens == 6
\* number of language ids of languageIcons.ts
MaxLangs == 3
\* number of entries of the patterns block of one icon definition
MaxEntries == 2

(***************************************************************************)
(* JavaScript strings                                                      *)
(***************************************************************************)
DOT == "."
SLASH == "/"
SPACE == " "

\* String.prototype.toLowerCase on one character (the letters the names use)
LowerChar(c) ==
  CASE c = "P" -> "p"
    [] c = "H" -> "h"
    [] c = "X" -> "x"
    [] c = "C" -> "c"
    [] c = "E" -> "e"
    [] c = "N" -> "n"
    [] c = "Y" -> "y"
    [] OTHER -> c

\* a lookup key taken as written
keepCase(s) == s

toLowerCase(s) == [i \in 1..Len(s) |-> LowerChar(s[i])]

\* String.prototype.split(sep): the pieces between the occurrences of sep
RECURSIVE SplitFrom(_, _, _)
SplitFrom(s, sep, cur) ==
  IF s = <<>> THEN <<cur>>
  ELSE IF Head(s) = sep THEN <<cur>> \o SplitFrom(Tail(s), sep, <<>>)
  ELSE SplitFrom(Tail(s), sep, Append(cur, Head(s)))

split(s, sep) == SplitFrom(s, sep, <<>>)

\* Array.prototype.join(sep)
RECURSIVE join(_, _)
join(parts, sep) ==
  IF parts = <<>> THEN <<>>
  ELSE IF Len(parts) = 1 THEN parts[1]
  ELSE parts[1] \o <<sep>> \o join(Tail(parts), sep)

\* slice(0), which drops nothing
sliceAll(parts) == parts

\* Array.prototype.slice(0, -1)
sliceInit(parts) == SubSeq(parts, 1, Len(parts) - 1)

\* String.prototype.includes(c) for a one-character needle
includes(s, c) == \E i \in 1..Len(s) : s[i] = c

\* String.prototype.startsWith(c) for a one-character prefix
startsWith(s, c) == Len(s) > 0 /\ s[1] = c

\* substring(0), which drops nothing
substring0(s) == s

\* String.prototype.substring(1)
substring1(s) == IF Len(s) = 0 THEN <<>> ELSE Tail(s)

\* String.prototype.trim()
RECURSIVE TrimLeft(_)
TrimLeft(s) == IF s # <<>> /\ Head(s) = SPACE THEN TrimLeft(Tail(s)) ELSE s

RECURSIVE TrimRight(_)
TrimRight(s) ==
  IF s # <<>> /\ s[Len(s)] = SPACE THEN TrimRight(SubSeq(s, 1, Len(s) - 1)) ELSE s

trim(s) == TrimRight(TrimLeft(s))

(***************************************************************************)
(* ICON_MAPPINGS: the table the build embeds in the userscript             *)
(***************************************************************************)
Undefined == "undefined"
Null == "null"

\* a test against undefined only
TruthyNotUndefined(v) == v # Undefined

\* a value is truthy unless it is undefined, null or the empty string
Truthy(v) == v \notin {Undefined, Null, ""}

\* names used on the modelled page
S_php == <<"p", "h", "p">>
S_index_php == <<"i", ".", "p", "h", "p">>
S_index_PHP == <<"i", ".", "P", "H", "P">>
S_notes == <<"n", "o">>
S_src == <<"s", "r", "c">>
S_github == <<"g", "h">>
S_dot_github == <<".", "g", "h">>
S_other == <<"o", "t", "h">>
S_src_other == <<"s", "r", "c", "/", "o", "t", "h">>
S_constructor == <<"c", "o", "n", "s", "t", "r", "u", "c", "t", "o", "r">>

\* properties every object literal inherits from Object.prototype
ProtoKeys == {S_constructor}
ProtoValue(key) == "function Object() { [native code] }"

\* obj[key]: own property, else inherited property, else undefined
Get(obj, key) ==
  IF key \in DOMAIN obj THEN obj[key]
  ELSE IF key \in ProtoKeys THEN ProtoValue(key)
  ELSE Undefined

IconPhp == "data:image/svg+xml;base64,php"
IconSrc == "data:image/svg+xml;base64,folder-src"
IconGithub == "data:image/svg+xml;base64,folder-github"
IconFile == "data:image/svg+xml;base64,file"
IconFolder == "data:image/svg+xml;base64,folder"
IconSymlink == "data:image/svg+xml;base64,folder-symlink"

\* the table when cache/icons holds file.svg and folder.svg
TableWithDefaults ==
  [extensions |-> (S_php :> IconPhp),
   filenames |-> << >>,
   folders |-> (S_src :> IconSrc) @@ (S_github :> IconGithub),
   defaultFile |-> IconFile,
   defaultFolder |-> IconFolder,
   symlink |-> IconSymlink]

\* the table when cache/icons holds neither file.svg nor folder.svg
TableNoDefaults ==
  [TableWithDefaults EXCEPT !.defaultFile = Undefined, !.defaultFolder = Undefined]

Tables == {TableWithDefaults, TableNoDefaults}

\* tables over a few keys, for the resolution functions on their own: every
\* choice of filename entries, extension entries and defaultFile, and every
\* choice of folder entries and defaultFolder
S_c == <<"c">>
S_d == <<"d">>
S_PHP == <<"P", "H", "P">>
S_c_php == <<"c", ".", "p", "h", "p">>
S_c_php_d == <<"c", ".", "p", "h", "p", ".", "d">>

IconD == "data:image/svg+xml;base64,d"
IconC == "data:image/svg+xml;base64,name-c"
IconCPhp == "data:image/svg+xml;base64,name-c-php"
IconCPhpD == "data:image/svg+xml;base64,name-c-php-d"
IconDotGithub == "data:image/svg+xml;base64,folder-dot-github"

FilenameKeys == {S_c, S_c_php, S_c_php_d}
ExtensionKeys == {S_php, S_d}
FolderKeys == {S_github, S_dot_github}

FilenameIcon(k) ==
  CASE k = S_c -> IconC [] k = S_c_php -> IconCPhp [] k = S_c_php_d -> IconCPhpD
ExtensionIcon(k) == CASE k = S_php -> IconPhp [] k = S_d -> IconD
FolderIcon(k) == CASE k = S_github -> IconGithub [] k = S_dot_github -> IconDotGithub

FileTables ==
  {[TableWithDefaults EXCEPT !.filenames = [k \in fs |-> FilenameIcon(k)],
                             !.extensions = [k \in es |-> ExtensionIcon(k)],
                             !.defaultFile = df] :
     fs \in SUBSET FilenameKeys, es \in SUBSET ExtensionKeys, df \in {IconFile, Undefined}}

FolderTables ==
  {[TableWithDefaults EXCEPT !.folders = [k \in ks |-> FolderIcon(k)],
                             !.defaultFolder = df] :
     ks \in SUBSET FolderKeys, df \in {IconFolder, Undefined}}

\* the names handed to the resolution functions: file names of up to
\* MaxSegments segments, folder names with up to MaxDots leading dots
Segments == {S_c, S_php, S_PHP, S_d, S_constructor, <<>>}

RECURSIVE SegmentLists(_)
SegmentLists(n) ==
  IF n = 0 THEN {<<>>}
  ELSE {Append(ps, x) : ps \in SegmentLists(n - 1), x \in Segments}

FileNames ==
  {join(ps, DOT) : ps \in UNION {SegmentLists(n) : n \in 1..MaxSegments}} \ {<<>>}

FolderBases == {S_github, S_other, S_constructor, S_php, S_c}
Dots(n) == [i \in 1..n |-> DOT]
FolderNames == {Dots(n) \o b : n \in 0..MaxDots, b \in FolderBases}

(***************************************************************************)
(* Icon resolution                                                         *)
(***************************************************************************)
\* x || null
OrNull(v) == IF Truthy(v) THEN v ELSE Null

\* the extension of the final segment looked up before the second-to-last
getFileIconLastSegmentFirst(M, filename) ==
  LET parts == split(filename, DOT)
      withoutLastExt == join(sliceInit(parts), DOT)
      secondExt == toLowerCase(parts[Len(parts) - 1])
      ext == toLowerCase(parts[Len(parts)])
  IN IF Truthy(Get(M.filenames, filename)) THEN Get(M.filenames, filename)
     ELSE IF Len(parts) > 2 /\ Truthy(Get(M.filenames, withoutLastExt))
       THEN Get(M.filenames, withoutLastExt)
     ELSE IF Len(parts) > 1 /\ Truthy(Get(M.extensions, ext))
       THEN Get(M.extensions, ext)
     ELSE IF Len(parts) > 2 /\ Truthy(Get(M.extensions, secondExt))
       THEN Get(M.extensions, secondExt)
     ELSE OrNull(M.defaultFile)

\* the extension lookups before the exact filename lookup
getFileIconExtensionFirst(M, filename) ==
  LET parts == split(filename, DOT)
      withoutLastExt == join(sliceInit(parts), DOT)
      secondExt == toLowerCase(parts[Len(parts) - 1])
      ext == toLowerCase(parts[Len(parts)])
  IN IF Len(parts) > 2 /\ Truthy(Get(M.filenames, withoutLastExt))
       THEN Get(M.filenames, withoutLastExt)
     ELSE IF Len(parts) > 2 /\ Truthy(Get(M.extensions, secondExt))
       THEN Get(M.extensions, secondExt)
     ELSE IF Len(parts) > 1 /\ Truthy(Get(M.extensions, ext))
       THEN Get(M.extensions, ext)
     ELSE IF Truthy(Get(M.filenames, filename)) THEN Get(M.filenames, filename)
     ELSE OrNull(M.defaultFile)

getFileIcon(M, filename) ==
  LET parts == split(filename, DOT)
      withoutLastExt == join(sliceInit(parts), DOT)
      secondExt == toLowerCase(parts[Len(parts) - 1])
      ext == toLowerCase(parts[Len(parts)])
  IN IF Truthy(Get(M.filenames, filename)) THEN Get(M.filenames, filename)
     ELSE IF Len(parts) > 2 /\ Truthy(Get(M.filenames, withoutLastExt))
       THEN Get(M.filenames, withoutLastExt)
     ELSE IF Len(parts) > 2 /\ Truthy(Get(M.extensions, secondExt))
       THEN Get(M.extensions, secondExt)
     ELSE IF Len(parts) > 1 /\ Truthy(Get(M.extensions, ext))
       THEN Get(M.extensions, ext)
     ELSE OrNull(M.defaultFile)

getFolderIcon(M, foldername) ==
  LET withoutDot == substring1(foldername)
  IN IF Truthy(Get(M.folders, foldername)) THEN Get(M.folders, foldername)
     ELSE IF startsWith(foldername, DOT) /\ Truthy(Get(M.folders, withoutDot))
       THEN Get(M.folders, withoutDot)
     ELSE OrNull(M.defaultFolder)

(***************************************************************************)
(* The page: DOM nodes                                                     *)
(*                                                                         *)
(* A node is [tag, cls, style, src, kids]: tag name, classList, the two    *)
(* style properties the script writes, the src of an img, element          *)
(* children.  An item is one row of the file list, the parent-directory    *)
(* row, or one item of the tree view; item.kids are the element children   *)
(* of the element that holds the glyph:                                    *)
(*   row    : .react-directory-filename-column                             *)
(*   parent : the parent of svg.octicon inside a[data-testid="up-tree"]    *)
(*   tree   : .PRIVATE_TreeView-item-visual                                *)
(***************************************************************************)
MARKER == "material-icon-replacement"
RGH_EDIT == "rgh-quick-file-edit"
TREE_DIR_ICON == "PRIVATE_TreeView-directory-icon"

NoStyle == [visibility |-> "", position |-> ""]
HiddenStyle == [visibility |-> "hidden", position |-> "absolute"]
\* the style of an element that has no style property at all: an element
\* that is neither an HTML nor an SVG element (createElementNS with another
\* namespace); reading svg.style yields undefined, svg.style.x = v throws
NoStyleProperty == [visibility |-> Undefined, position |-> Undefined]

El(tag, cls, kids) ==
  [tag |-> tag, cls |-> cls, style |-> NoStyle, src |-> "", kids |-> kids]

FileSvg == El("svg", {"octicon", "octicon-file"}, <<>>)
DirSvg == El("svg", {"octicon", "octicon-file-directory-fill"}, <<>>)
DirOpenSvg == El("svg", {"octicon", "octicon-file-directory-open-fill"}, <<>>)
SymlinkSvg == El("svg", {"octicon", "octicon-file-symlink-file"}, <<>>)
\* an element named svg with the classes of the file glyph, outside the SVG
\* namespace
ForeignSvg == [FileSvg EXCEPT !.style = NoStyleProperty]
SymlinkDirSvg == El("svg", {"octicon", "octicon-file-symlink-directory"}, <<>>)
PencilSvg == El("svg", {"octicon", "octicon-pencil"}, <<>>)
\* the element that holds the name next to the glyph
NameEl == El("div", {"overflow-hidden"}, <<>>)

\* the sub-elements the per-item steps look up besides the glyph
TD == "td"
FILENAME_COLUMN == ".react-directory-filename-column"
TREE_TEXT_SPAN == ".PRIVATE_TreeView-item-content-text span"
TREE_VISUAL == ".PRIVATE_TreeView-item-visual"

\* the selectors a row can match
SelDivRow == "div[role=row]"
SelTrDir == "tr.react-directory-row"
SelTrFolder == "tr[id^=folder-row-]"

\* the class names that contain the substring octicon-file
OcticonFileClasses ==
  {"octicon-file", "octicon-file-directory", "octicon-file-directory-fill",
   "octicon-file-directory-open-fill", "octicon-file-symlink-file",
   "octicon-file-symlink-directory"}

\* selector predicates
IsMarker(n) == MARKER \in n.cls
IsMarkerImg(n) == n.tag = "img" /\ MARKER \in n.cls
IsOcticonSvg(n) == n.tag = "svg" /\ "octicon" \in n.cls
IsFileGlyph(n) == n.tag = "svg" /\ n.cls \cap OcticonFileClasses # {}
IsFileGlyphNotPencil(n) == IsFileGlyph(n) /\ "octicon-pencil" \notin n.cls
IsEditLink(n) == n.tag = "a" /\ RGH_EDIT \in n.cls

\* the descendants of an element in document order, as paths of child indexes
RECURSIVE PathsFrom(_, _)
PathsFrom(kids, i) ==
  IF i > Len(kids) THEN <<>>
  ELSE <<<<i>>>> \o [j \in 1..Len(kids[i].kids) |-> <<i, j>>] \o PathsFrom(kids, i + 1)

Descendants(kids) == PathsFrom(kids, 1)

NodeAt(kids, p) == IF Len(p) = 1 THEN kids[p[1]] ELSE kids[p[1]].kids[p[2]]

\* element.matches(selector) for the selectors the script queries
Matches(n, selector) ==
  CASE selector = "svg.octicon" -> IsOcticonSvg(n)
    [] selector = "svg[class*=octicon-file]" -> IsFileGlyph(n)
    [] selector = "img.material-icon-replacement" -> IsMarkerImg(n)
    [] selector = "a.rgh-quick-file-edit" -> IsEditLink(n)

\* element.querySelector: the first descendant in document order, <<>> if none
querySelector(kids, selector) ==
  LET ps == Descendants(kids)
      hits == {k \in 1..Len(ps) : Matches(NodeAt(kids, ps[k]), selector)}
  IN IF hits = {} THEN <<>>
     ELSE ps[CHOOSE k \in hits : \A h \in hits : k <= h]

\* the children of the parent of the node at path p, and writing them back
Siblings(kids, p) == IF Len(p) = 1 THEN kids ELSE kids[p[1]].kids
WithSiblings(kids, p, sibs) ==
  IF Len(p) = 1 THEN sibs ELSE [kids EXCEPT ![p[1]].kids = sibs]
IndexOf(p) == p[Len(p)]

\* appendChild in place of insertBefore
InsertAtEnd(s, i, x) == Append(s, x)

InsertAt(s, i, x) == SubSeq(s, 1, i - 1) \o <<x>> \o SubSeq(s, i, Len(s))
RemoveAt(s, i) == SubSeq(s, 1, i - 1) \o SubSeq(s, i + 1, Len(s))

\* a check that never recognises the replacement
NextIsMarkerNever(sibs, i) == FALSE

\* node.nextElementSibling?.classList.contains('material-icon-replacement')
NextIsMarker(sibs, i) == i < Len(sibs) /\ IsMarker(sibs[i + 1])

\* a lookup that never sees the edit link
ClosestEditLinkNone(kids, p) == <<>>

\* svg.closest('a.rgh-quick-file-edit'): the path of the anchor, <<>> if none
ClosestEditLink(kids, p) ==
  IF Len(p) = 2 /\ IsEditLink(kids[p[1]]) THEN <<p[1]>> ELSE <<>>

(***************************************************************************)
(* Mutation records, as the observer of init would receive them            *)
(***************************************************************************)
\* what the handler reads of an added or removed node
Desc(n) == [tag |-> n.tag, cls |-> n.cls, self |-> "none", contains |-> {}]
\* a row or tree item added or removed as a node of its own
ItemDesc(i) == [tag |-> "item", cls |-> {}, self |-> i, contains |-> {}]
\* a container element added with rows / tree items inside
ContainerDesc(S) == [tag |-> "container", cls |-> {}, self |-> "none", contains |-> S]

ChildList(target, added, removed) ==
  [type |-> "childList", target |-> target, added |-> added, removed |-> removed]
Attributes(target) ==
  [type |-> "attributes", target |-> target, added |-> <<>>, removed |-> <<>>]

(***************************************************************************)
(* createIconImg                                                           *)
(***************************************************************************)
createIconImg(iconDataUri) ==
  [tag |-> "img", cls |-> {MARKER}, style |-> NoStyle, src |-> iconDataUri,
   kids |-> <<>>]

\* svg.style.visibility = 'hidden'; svg.style.position = 'absolute'
\* the records: one per style property whose value changes
HideRecords(n) ==
  (IF n.style.visibility # "hidden" THEN <<Attributes(Desc(n))>> ELSE <<>>)
  \o (IF n.style.position # "absolute" THEN <<Attributes(Desc(n))>> ELSE <<>>)
Hide(n) == [n EXCEPT !.style = HiddenStyle]

\* the element whose children are Siblings(kids, p), as a record target
HOLDER == [tag |-> "holder", cls |-> {}, self |-> "none", contains |-> {}]
ParentDesc(kids, p) == IF Len(p) = 1 THEN HOLDER ELSE Desc(kids[p[1]])

\* the result of one per-item step: the item, the records of its writes,
\* and what it adds to stats.replaced
Step(item, recs, replaced) ==
  [item |-> item, recs |-> recs, replaced |-> replaced, threw |-> FALSE]
NoChange(item) == Step(item, <<>>, 0)
\* the step ends with a TypeError after the writes recorded in recs
Throw(item, recs) == [item |-> item, recs |-> recs, replaced |-> 0, threw |-> TRUE]

\* svg.style is undefined
HasNoStyle(n) == n.style = NoStyleProperty

\* hide the svg at path p and insert img right after it (insertBefore(img, svg.nextSibling))
HideAndInsertAfter(item, p, img) ==
  LET sibs == Siblings(item.kids, p)
      i == IndexOf(p)
      svg == sibs[i]
      sibs2 == InsertAt([sibs EXCEPT ![i] = Hide(svg)], i + 1, img)
  IN IF HasNoStyle(svg) THEN Throw(item, <<>>)
     ELSE Step([item EXCEPT !.kids = WithSiblings(item.kids, p, sibs2)],
               HideRecords(svg) \o <<ChildList(ParentDesc(item.kids, p), <<Desc(img)>>, <<>>)>>,
               1)

(***************************************************************************)
(* replaceIconForItem                                                      *)
(***************************************************************************)
\* href.includes('/blob/'), href.includes('/tree/'): href is the sequence of
\* the path segments of "/seg/seg/...", so "/x/" occurs iff a segment other
\* than the last one is x
HrefIncludes(href, seg) == \E k \in 1..(Len(href) - 1) : href[k] = seg

\* aria-label, lower-cased, includes 'directory' or 'folder'
AriaSaysFolder(aria) == aria \in {"Directory", "Folder"}

\* a test that never recognises a symlink glyph
IsSymlinkSvgNever(svg) == FALSE

IsSymlinkSvg(svg) ==
  "octicon-file-symlink-file" \in svg.cls \/ "octicon-file-symlink-directory" \in svg.cls

\* a loop that removes every following sibling
MarkerRunAll(sibs, i) == Len(sibs) - i

\* the number of marker elements that follow position i without a gap
RECURSIVE MarkerRun(_, _)
MarkerRun(sibs, i) ==
  IF NextIsMarker(sibs, i) THEN 1 + MarkerRun(sibs, i + 1) ELSE 0

\* an edit link never taken to hold the image already
ExistingIconNever(a) == FALSE

\* editLink.querySelector('img.material-icon-replacement')
ExistingIcon(a) == \E k \in 1..Len(a.kids) : IsMarkerImg(a.kids[k])

\* the branch taken when svg.closest('a.rgh-quick-file-edit') exists; e is the
\* path of the edit link
ReplaceInEditLink(item, e, iconDataUri) ==
  LET ai == e[1]
      a == item.kids[ai]
      existingIcon == ExistingIcon(a)
      run == MarkerRun(item.kids, ai)
      hits == {k \in 1..Len(a.kids) : IsFileGlyphNotPencil(a.kids[k])}
      q == CHOOSE k \in hits : \A h \in hits : k <= h
      siblingIcon == NextIsMarker(item.kids, ai)
      kids1 == IF siblingIcon THEN RemoveAt(item.kids, ai + 1) ELSE item.kids
      recs1 == IF siblingIcon
                 THEN <<ChildList(HOLDER, <<>>, <<Desc(item.kids[ai + 1])>>)>>
                 ELSE <<>>
      img == createIconImg(iconDataUri)
      a2 == [a EXCEPT !.kids = <<img>> \o [a.kids EXCEPT ![q] = Hide(a.kids[q])]]
  IN IF existingIcon
       THEN Step([item EXCEPT !.kids = SubSeq(item.kids, 1, ai)
                                       \o SubSeq(item.kids, ai + run + 1, Len(item.kids))],
                 [k \in 1..run |-> ChildList(HOLDER, <<>>, <<Desc(item.kids[ai + k])>>)],
                 0)
     ELSE IF hits = {}
       THEN Step([item EXCEPT !.kids = kids1], recs1, 0)
     ELSE IF HasNoStyle(a.kids[q])
       THEN Throw([item EXCEPT !.kids = kids1], recs1)
     ELSE Step([item EXCEPT !.kids = [kids1 EXCEPT ![ai] = a2]],
               recs1 \o HideRecords(a.kids[q]) \o <<ChildList(Desc(a), <<Desc(img)>>, <<>>)>>,
               1)

\* a lookup that finds every sub-element
IsMissingNever(item, selector) == FALSE

\* item.querySelector(selector) is null
IsMissing(item, selector) == selector \in item.missing

\* the icon chosen for a row: symlink, folder chain or file chain
RowIcon(M, item, name, svg) ==
  LET isSymlink == IsSymlinkSvg(svg)
      isFolder == HrefIncludes(item.href, "tree") \/ AriaSaysFolder(item.aria)
  IN IF isSymlink THEN M.symlink
     ELSE IF isFolder THEN getFolderIcon(M, name)
     ELSE getFileIcon(M, name)

\* the name looked up for a row: trimmed link text, cut at the first '/'
RowName(item) ==
  LET trimmed == trim(item.text)
  IN IF includes(trimmed, SLASH) THEN split(trimmed, SLASH)[1] ELSE trimmed

\* an icon looked up by the name of the directory the up-tree link targets,
\* which is src on the modelled pages
ParentDirIconByName(M, item) == getFolderIcon(M, S_src)

\* the icon of the parent-directory row: const iconDataUri = ICON_MAPPINGS.defaultFolder
ParentDirIcon(M, item) == M.defaultFolder

replaceIconForItem(M, item) ==
  IF item.upTree
    THEN LET p == querySelector(item.kids, "svg.octicon")
         IN IF p # <<>> /\ ~NextIsMarker(Siblings(item.kids, p), IndexOf(p))
                /\ Truthy(ParentDirIcon(M, item))
              THEN HideAndInsertAfter(item, p, createIconImg(ParentDirIcon(M, item)))
              ELSE NoChange(item)
  ELSE
    LET trimmed == trim(item.text)
        name == RowName(item)
        p == querySelector(item.kids, "svg[class*=octicon-file]")
        svg == NodeAt(item.kids, p)
        iconDataUri == RowIcon(M, item, name, svg)
        editLink == ClosestEditLink(item.kids, p)
    IN IF IsMissing(item, TD) THEN NoChange(item)
       ELSE IF ~(HrefIncludes(item.href, "blob") \/ HrefIncludes(item.href, "tree"))
         THEN NoChange(item)
       ELSE IF trimmed = <<>> THEN NoChange(item)
       ELSE IF IsMissing(item, FILENAME_COLUMN) THEN NoChange(item)
       ELSE IF p = <<>> THEN NoChange(item)
       ELSE IF ~Truthy(iconDataUri) THEN NoChange(item)
       ELSE IF editLink # <<>> THEN ReplaceInEditLink(item, editLink, iconDataUri)
       ELSE IF NextIsMarker(Siblings(item.kids, p), IndexOf(p)) THEN NoChange(item)
       ELSE HideAndInsertAfter(item, p, createIconImg(iconDataUri))

(***************************************************************************)
(* replaceIconForTreeItem                                                  *)
(***************************************************************************)
IsTreeFolderSvg(svg) ==
  \/ "octicon-file-directory" \in svg.cls
  \/ "octicon-file-directory-fill" \in svg.cls
  \/ "octicon-file-directory-open-fill" \in svg.cls

\* the icon chosen for a tree item, from the classes of its glyph
TreeIcon(M, name, svg) ==
  LET isSymlink == IsSymlinkSvg(svg)
      isFolder == IsTreeFolderSvg(svg)
  IN IF isSymlink THEN M.symlink
     ELSE IF isFolder THEN getFolderIcon(M, name)
     ELSE getFileIcon(M, name)

\* a tree step that never finds its earlier replacement
TreeExistingIconNever(item, p) == FALSE

\* svgParent.querySelector('img.material-icon-replacement'), p the path of the svg
TreeExistingIcon(item, p) ==
  IF Len(p) = 1 THEN querySelector(item.kids, "img.material-icon-replacement") # <<>>
  ELSE \E k \in 1..Len(item.kids[p[1]].kids) : IsMarkerImg(item.kids[p[1]].kids[k])

replaceIconForTreeItem(M, item) ==
  LET name == trim(item.text)
      p == querySelector(item.kids, "svg.octicon")
      svg == NodeAt(item.kids, p)
      existingIcon == TreeExistingIcon(item, p)
      iconDataUri == TreeIcon(M, name, svg)
      sibs == Siblings(item.kids, p)
  IN IF IsMissing(item, TREE_TEXT_SPAN) THEN NoChange(item)
     ELSE IF name = <<>> THEN NoChange(item)
     ELSE IF IsMissing(item, TREE_VISUAL) THEN NoChange(item)
     ELSE IF p = <<>> THEN NoChange(item)
     ELSE IF existingIcon
       THEN IF HasNoStyle(svg) THEN Throw(item, <<>>)
            ELSE Step([item EXCEPT !.kids =
                         WithSiblings(item.kids, p, [sibs EXCEPT ![IndexOf(p)] = Hide(svg)])],
                      HideRecords(svg), 0)
     ELSE IF ~Truthy(iconDataUri) THEN NoChange(item)
     ELSE HideAndInsertAfter(item, p, createIconImg(iconDataUri))

(***************************************************************************)
(* The page: rows and tree items                                           *)
(***************************************************************************)
\* the places of the page where a row or a tree item can be mounted, in
\* document order
Items == <<"r1", "r2", "t1">>
ItemIds == {Items[k] : k \in 1..Len(Items)}

\* missing: the sub-elements the item lacks
Absent ==
  [present |-> FALSE, layout |-> "none", upTree |-> FALSE, sel |-> {},
   text |-> <<>>, href |-> <<>>, aria |-> "", kids |-> <<>>, missing |-> {}]

Row(sel, text, href, aria, svg) ==
  [present |-> TRUE, layout |-> "row", upTree |-> FALSE, sel |-> sel,
   text |-> text, href |-> href, aria |-> aria, kids |-> <<svg, NameEl>>,
   missing |-> {}]

\* the row of the up-tree link; the link targets the parent directory, src
ParentRow(sel) ==
  [present |-> TRUE, layout |-> "row", upTree |-> TRUE, sel |-> sel,
   text |-> <<".", ".">>, href |-> <<"o", "r", "tree", "main", "src">>,
   aria |-> "Directory",
   kids |-> <<DirSvg, NameEl>>, missing |-> {}]

TreeItem(text, kids) ==
  [present |-> TRUE, layout |-> "tree", upTree |-> FALSE, sel |-> {},
   text |-> text, href |-> <<>>, aria |-> "", kids |-> kids, missing |-> {}]

BlobHref == <<"o", "r", "blob", "main", "f">>
TreeHref == <<"o", "r", "tree", "main", "d">>

DivLayout == {SelDivRow}
TableLayout == {SelTrDir, SelTrFolder}

\* the listings the host page renders as a whole: the div layout and the
\* table layout, with and without the parent-directory row
Page(r1, r2, t1) == [i \in ItemIds |-> CASE i = "r1" -> r1 [] i = "r2" -> r2 [] i = "t1" -> t1]

Pages ==
  {Page(Row(DivLayout, S_index_php \o <<SPACE>>, BlobHref, "File", FileSvg),
        ParentRow(DivLayout),
        TreeItem(S_index_PHP, <<FileSvg>>)),
   Page(Row(TableLayout, S_notes, BlobHref, "File", FileSvg),
        ParentRow({SelTrFolder}),
        TreeItem(S_other, <<DirSvg>>)),
   Page(Row(TableLayout, S_index_php \o <<SPACE>>, BlobHref, "File", FileSvg),
        Row(TableLayout, S_src_other, TreeHref, "Directory", DirSvg),
        TreeItem(S_dot_github, <<El("div", {TREE_DIR_ICON}, <<DirSvg>>)>>))}

\* listings of symbolic links: names with an entry of their own in the table
\* layout, a name without one beside the parent-directory row in the div
\* layout
SymlinkPages ==
  {Page(Row(TableLayout, S_index_php, BlobHref, "File", SymlinkSvg),
        Row(TableLayout, S_src, TreeHref, "Directory", SymlinkDirSvg),
        TreeItem(S_src, <<SymlinkDirSvg>>)),
   Page(Row(DivLayout, S_notes, BlobHref, "File", SymlinkSvg),
        ParentRow(DivLayout),
        TreeItem(S_notes, <<SymlinkSvg>>))}

\* listings with a row or a tree item of unexpected structure: first a
\* candidate that lacks a sub-element, or a row whose glyph has no style
\* property, then a row and a tree item as GitHub renders them
GoodRow == Row(TableLayout, S_index_php, BlobHref, "File", FileSvg)
GoodTreeItem == TreeItem(S_src, <<DirSvg>>)

MalformedPages ==
  {Page([GoodRow EXCEPT !.missing = {TD}],
        GoodRow,
        [GoodTreeItem EXCEPT !.missing = {TREE_TEXT_SPAN}]),
   Page([GoodRow EXCEPT !.href = <<"o", "r", "commits", "main">>],
        GoodRow,
        [GoodTreeItem EXCEPT !.text = <<SPACE>>]),
   Page([GoodRow EXCEPT !.text = <<SPACE, SPACE>>],
        GoodRow,
        [GoodTreeItem EXCEPT !.missing = {TREE_VISUAL}]),
   Page([GoodRow EXCEPT !.missing = {FILENAME_COLUMN}],
        GoodRow,
        [GoodTreeItem EXCEPT !.kids = <<>>]),
   Page([GoodRow EXCEPT !.kids = <<NameEl>>],
        GoodRow,
        GoodTreeItem),
   Page([GoodRow EXCEPT !.kids = <<ForeignSvg, NameEl>>],
        GoodRow,
        GoodTreeItem)}

\* what the page rendered of an item, as opposed to what scripts did to it
Rendered(it) == [it EXCEPT !.kids = <<>>]

\* element.matches / closest for the selectors of the script
MatchesRow(it) == it.present /\ it.sel \cap {SelDivRow, SelTrDir, SelTrFolder} # {}
MatchesTreeItem(it) == it.present /\ it.layout = "tree"
\* closest('div[role="row"], tr.react-directory-row') from inside the item
ClosestRow(d, i) ==
  IF i \in ItemIds /\ d[i].present /\ d[i].sel \cap {SelDivRow, SelTrDir} # {}
    THEN i ELSE "none"
\* closest('.PRIVATE_TreeView-item-content') from inside the item
ClosestTreeItem(d, i) ==
  IF i \in ItemIds /\ MatchesTreeItem(d[i]) THEN i ELSE "none"

\* the records of a step, with the item the mutation target lies in
InItem(i, recs) == [k \in 1..Len(recs) |-> [item |-> i] @@ recs[k]]

(***************************************************************************)
(* Reconciliation of a list of items, replaceIcons                         *)
(***************************************************************************)
\* item.classList.contains('PRIVATE_TreeView-item-content') ? tree : row
Reconcile(M, it) ==
  IF it.layout = "tree" THEN replaceIconForTreeItem(M, it) ELSE replaceIconForItem(M, it)

\* forEach over the chosen items, each on the DOM the earlier ones left; an
\* error thrown by one step ends the loop and leaves the caller
RECURSIVE ReconcileAll(_, _, _)
\* what the loop leaves once item i has taken step st: nothing more when the
\* step threw, the remaining items otherwise
ReconcileRest(M, d, i, st, todo) ==
  IF st.threw
    THEN [dom |-> [d EXCEPT ![i] = st.item], recs |-> <<>>, replaced |-> 0, threw |-> TRUE]
    ELSE ReconcileAll(M, [d EXCEPT ![i] = st.item], todo)

\* the step of item i followed by the rest of the loop
ReconcileThen(i, st, rest) ==
  [dom |-> rest.dom,
   recs |-> InItem(i, st.recs) \o rest.recs,
   replaced |-> st.replaced + rest.replaced,
   threw |-> rest.threw]

ReconcileFrom(M, d, i, st, todo) ==
  ReconcileThen(i, st, ReconcileRest(M, d, i, st, todo))

ReconcileAll(M, d, todo) ==
  IF todo = <<>> THEN [dom |-> d, recs |-> <<>>, replaced |-> 0, threw |-> FALSE]
  ELSE ReconcileFrom(M, d, Head(todo), Reconcile(M, d[Head(todo)]), Tail(todo))

\* the items replaceIcons visits, in order
ReplaceIconsItems(d) ==
  LET IsDivRow(i) == d[i].present /\ SelDivRow \in d[i].sel
      IsTableRow(i) == d[i].present /\ d[i].sel \cap {SelTrDir, SelTrFolder} # {}
      IsTree(i) == MatchesTreeItem(d[i])
      divRows == SelectSeq(Items, IsDivRow)
      items == IF Len(divRows) = 0 THEN SelectSeq(Items, IsTableRow) ELSE divRows
  IN items \o SelectSeq(Items, IsTree)

replaceIcons(M, d) == ReconcileAll(M, d, ReplaceIconsItems(d))

(***************************************************************************)
(* The MutationObserver callback of init                                   *)
(***************************************************************************)
\* Set.add, keeping insertion order
SetAdd(rows, x) ==
  IF x = "none" \/ \E k \in 1..Len(rows) : rows[k] = x THEN rows ELSE Append(rows, x)

RECURSIVE SetAddAll(_, _)
SetAddAll(rows, xs) ==
  IF xs = <<>> THEN rows ELSE SetAddAll(SetAdd(rows, Head(xs)), Tail(xs))

\* the style the target svg of an attributes record has when the callback runs
TargetVisibility(d, i) ==
  LET p == querySelector(d[i].kids, "svg[class*=octicon-file]")
  IN IF p = <<>> THEN "" ELSE NodeAt(d[i].kids, p).style.visibility

HasEditLink(it) == querySelector(it.kids, "a.rgh-quick-file-edit") # <<>>

\* the rows one added node contributes (lines of the addedNodes loop)
AddedNodeRows(d, i, node, rows) ==
  LET inside == IF node.self # "none" THEN {node.self} ELSE node.contains
      IsRowInside(j) == j \in node.contains /\ MatchesRow(d[j])
      EditRowInside(j) == j \in inside /\ d[j].present /\ HasEditLink(d[j])
                          /\ ClosestRow(d, j) # "none"
      IsTreeInside(j) == j \in node.contains /\ MatchesTreeItem(d[j])
      r1 == IF node.tag = "svg" /\ "octicon" \in node.cls
              THEN SetAdd(rows, ClosestTreeItem(d, i)) ELSE rows
      r2 == IF node.self # "none" /\ MatchesRow(d[node.self]) THEN SetAdd(r1, node.self)
            ELSE SetAddAll(r1, SelectSeq(Items, IsRowInside))
      r3 == IF node.tag = "a" /\ RGH_EDIT \in node.cls THEN SetAdd(r2, ClosestRow(d, i))
            ELSE SetAddAll(r2, SelectSeq(Items, EditRowInside))
      r4 == IF node.self # "none" /\ MatchesTreeItem(d[node.self]) THEN SetAdd(r3, node.self)
            ELSE SetAddAll(r3, SelectSeq(Items, IsTreeInside))
  IN IF MARKER \in node.cls THEN rows ELSE r4

RECURSIVE AddedRows(_, _, _, _)
AddedRows(d, i, nodes, rows) ==
  IF nodes = <<>> THEN rows
  ELSE AddedRows(d, i, Tail(nodes), AddedNodeRows(d, i, Head(nodes), rows))

RECURSIVE RemovedRows(_, _, _, _)
RemovedRows(d, i, nodes, rows) ==
  IF nodes = <<>> THEN rows
  ELSE RemovedRows(d, i, Tail(nodes),
                   IF MARKER \in Head(nodes).cls THEN SetAdd(rows, ClosestRow(d, i)) ELSE rows)

\* the rows one mutation record contributes
MutationRows(d, m, rows) ==
  LET a == RemovedRows(d, m.item, m.removed, rows)
      b == IF m.type = "attributes" /\ m.target.tag = "svg"
              /\ m.target.cls \cap OcticonFileClasses # {}
              /\ m.item \in ItemIds /\ d[m.item].present
              /\ TargetVisibility(d, m.item) # "hidden"
             THEN SetAdd(a, ClosestRow(d, m.item)) ELSE a
  IN AddedRows(d, m.item, m.added, b)

\* rowsToProcess after the loop over the batch
RECURSIVE RowsToProcessFrom(_, _, _)
RowsToProcessFrom(d, mutations, rows) ==
  IF mutations = <<>> THEN rows
  ELSE RowsToProcessFrom(d, Tail(mutations), MutationRows(d, Head(mutations), rows))

RowsToProcess(d, mutations) == RowsToProcessFrom(d, mutations, <<>>)

\* the whole callback on one batch
ObserverCallback(M, d, mutations) == ReconcileAll(M, d, RowsToProcess(d, mutations))

(***************************************************************************)
(* State                                                                   *)
(***************************************************************************)
VARIABLES
  ICON_MAPPINGS,   \* the embedded table, fixed for the run
  extension,       \* [data-material-icons-extension] is in the document
  dom,             \* the rows and tree items of the document
  phase,           \* "loaded", "disabled", "initialized", "observing", and
                   \* "failed" when init ended with an uncaught error
  pending,         \* mutation records queued for the observer
  hostOps,         \* mutations performed by the page and the other extension
  last,            \* the last run of the script: its kind, the batch it
                   \* received, the items it had to reconcile in order,
                   \* whether it ended with an uncaught error
  call,            \* the last call of a resolution function on its own:
                   \* the function, its argument, what it returned
  calls,           \* the calls of a sequence of calls of the resolution
                   \* functions, in order
  build            \* the run of the fetch and build scripts: the upstream
                   \* checkout, the cache, the step reached, what was logged

vars == <<ICON_MAPPINGS, extension, dom, phase, pending, hostOps, last, call, calls, build>>

NoRun == [kind |-> "none", batch |-> <<>>, items |-> <<>>, threw |-> FALSE]
NoCall == [fn |-> "none", arg |-> <<>>, result |-> Null]
NoBuild == [step |-> "none"]

Init ==
  /\ ICON_MAPPINGS \in Tables
  /\ extension \in BOOLEAN
  /\ dom = [i \in ItemIds |-> Absent]
  /\ phase = "loaded"
  /\ pending = <<>>
  /\ hostOps = 0
  /\ last = NoRun
  /\ call = NoCall
  /\ calls = <<>>
  /\ build = NoBuild

(***************************************************************************)
(* The host page and the other extension                                   *)
(***************************************************************************)
\* an observer that is attached as soon as the script is loaded
ObservingFromLoad(ph) == TRUE

\* observer.observe(document.body, ...) has run
Observing(ph) == ph = "observing"

\* records are queued only once observer.observe has run
Notify(recs) ==
  pending' = IF Observing(phase) THEN pending \o recs ELSE pending

\* the bound on the mutations of the page and the other extension
HostMayAct == hostOps < MaxHostOps

HostStep(d, recs) ==
  /\ dom' = d
  /\ Notify(recs)
  /\ hostOps' = hostOps + 1
  /\ last' = NoRun
  /\ UNCHANGED <<ICON_MAPPINGS, extension, phase, call, calls, build>>

\* the page renders one more row or tree item of the listing it shows
AddItemOf(pages) ==
  /\ HostMayAct
  /\ \E i \in ItemIds : \E f \in pages :
    /\ ~dom[i].present
    /\ \A j \in ItemIds : dom[j].present => Rendered(dom[j]) = Rendered(f[j])
    /\ HostStep([dom EXCEPT ![i] = f[i]],
                <<[item |-> "body"] @@ ChildList(HOLDER, <<ItemDesc(i)>>, <<>>)>>)

\* the page renders a container with every row and tree item in it
\* (navigation replaces the whole listing)
AddContainerOf(pages) ==
  /\ HostMayAct
  /\ \E f \in pages :
    /\ \A i \in ItemIds : ~dom[i].present
    /\ HostStep(f, <<[item |-> "body"] @@ ChildList(HOLDER, <<ContainerDesc(ItemIds)>>, <<>>)>>)

AddItem == AddItemOf(Pages)
AddContainer == AddContainerOf(Pages)

\* the page removes a row or tree item
RemoveItem ==
  /\ HostMayAct
  /\ \E i \in ItemIds :
    /\ dom[i].present
    /\ HostStep([dom EXCEPT ![i] = Absent],
                <<[item |-> "body"] @@ ChildList(HOLDER, <<>>, <<ItemDesc(i)>>)>>)

\* a page script strips an injected image
StripIcon ==
  /\ HostMayAct
  /\ \E i \in ItemIds : \E k \in 1..Len(Descendants(dom[i].kids)) :
    LET p == Descendants(dom[i].kids)[k]
        sibs == Siblings(dom[i].kids, p)
    IN /\ dom[i].present
       /\ IsMarkerImg(NodeAt(dom[i].kids, p))
       /\ HostStep([dom EXCEPT ![i].kids = WithSiblings(dom[i].kids, p, RemoveAt(sibs, IndexOf(p)))],
                   InItem(i, <<ChildList(ParentDesc(dom[i].kids, p), <<>>, <<Desc(sibs[IndexOf(p)])>>)>>))

\* the page resets the style of a glyph the script has hidden
ResetStyle ==
  /\ HostMayAct
  /\ \E i \in ItemIds : \E k \in 1..Len(Descendants(dom[i].kids)) :
    LET p == Descendants(dom[i].kids)[k]
        sibs == Siblings(dom[i].kids, p)
        n == sibs[IndexOf(p)]
    IN /\ dom[i].present
       /\ n.tag = "svg" /\ n.style # NoStyle /\ ~HasNoStyle(n)
       /\ HostStep([dom EXCEPT ![i].kids =
                      WithSiblings(dom[i].kids, p, [sibs EXCEPT ![IndexOf(p)].style = NoStyle])],
                   InItem(i, <<Attributes(Desc(n))>>))

\* Refined GitHub wraps the glyph of a row in a.rgh-quick-file-edit and adds
\* its pencil; an injected image stays behind as the next sibling of the anchor
WrapEditLink ==
  /\ HostMayAct
  /\ \E i \in ItemIds :
    LET p == querySelector(dom[i].kids, "svg[class*=octicon-file]")
        svg == NodeAt(dom[i].kids, p)
        a == El("a", {RGH_EDIT}, <<svg, PencilSvg>>)
    IN /\ dom[i].present /\ dom[i].layout = "row" /\ ~dom[i].upTree
       /\ p # <<>> /\ Len(p) = 1
       /\ HostStep([dom EXCEPT ![i].kids[p[1]] = a],
                   InItem(i, <<ChildList(HOLDER, <<Desc(a)>>, <<>>),
                               ChildList(HOLDER, <<>>, <<Desc(svg)>>),
                               ChildList(Desc(a), <<Desc(svg)>>, <<>>),
                               ChildList(Desc(a), <<Desc(PencilSvg)>>, <<>>)>>))

\* the page opens or closes a folder of the tree view: the glyph is replaced
\* by a new svg, put at the place of the old one or after the last child
ToggleFolder ==
  /\ HostMayAct
  /\ \E i \in ItemIds : \E atEnd \in BOOLEAN :
    LET p == querySelector(dom[i].kids, "svg.octicon")
        sibs == Siblings(dom[i].kids, p)
        old == sibs[IndexOf(p)]
        new == IF "octicon-file-directory-open-fill" \in old.cls THEN DirSvg ELSE DirOpenSvg
        sibs2 == IF atEnd THEN Append(RemoveAt(sibs, IndexOf(p)), new)
                 ELSE [sibs EXCEPT ![IndexOf(p)] = new]
    IN /\ dom[i].present /\ dom[i].layout = "tree"
       /\ p # <<>> /\ IsTreeFolderSvg(old)
       /\ HostStep([dom EXCEPT ![i].kids = WithSiblings(dom[i].kids, p, sibs2)],
                   InItem(i, <<ChildList(ParentDesc(dom[i].kids, p), <<>>, <<Desc(old)>>),
                               ChildList(ParentDesc(dom[i].kids, p), <<Desc(new)>>, <<>>)>>))

(***************************************************************************)
(* The script                                                              *)
(***************************************************************************)
\* a conflict check that never sees the other extension
ConflictDetectedNever(ext) == FALSE

\* document.querySelector('[data-material-icons-extension]')
ConflictDetected(ext) == ext

\* init, run by the first timer: the conflict check, then replaceIcons; the
\* timer that attaches the observer is set after replaceIcons has returned
InitScript ==
  /\ phase = "loaded"
  /\ IF ConflictDetected(extension)
       THEN /\ phase' = "disabled"
            /\ last' = NoRun
            /\ UNCHANGED <<dom, pending>>
       ELSE LET r == replaceIcons(ICON_MAPPINGS, dom)
            IN /\ phase' = IF r.threw THEN "failed" ELSE "initialized"
               /\ dom' = r.dom
               /\ Notify(r.recs)
               /\ last' = [kind |-> "init", batch |-> <<>>,
                           items |-> ReplaceIconsItems(dom), threw |-> r.threw]
  /\ UNCHANGED <<ICON_MAPPINGS, extension, hostOps, call, calls, build>>

\* the second timer of init: observer.observe(document.body, ...)
AttachObserver ==
  /\ phase = "initialized"
  /\ phase' = "observing"
  /\ last' = NoRun
  /\ UNCHANGED <<ICON_MAPPINGS, extension, dom, pending, hostOps, call, calls, build>>

\* the observer callback receives every queued record as one batch; the
\* records of its own writes are queued for the next batch
HandleBatch ==
  /\ Observing(phase)
  /\ pending # <<>>
  /\ LET r == ObserverCallback(ICON_MAPPINGS, dom, pending)
     IN /\ dom' = r.dom
        /\ pending' = r.recs
        /\ last' = [kind |-> "batch", batch |-> pending,
                    items |-> RowsToProcess(dom, pending), threw |-> r.threw]
  /\ UNCHANGED <<ICON_MAPPINGS, extension, phase, hostOps, call, calls, build>>

Host == AddItem \/ AddContainer \/ RemoveItem \/ StripIcon \/ ResetStyle
        \/ WrapEditLink \/ ToggleFolder

Next == Host \/ InitScript \/ AttachObserver \/ HandleBatch

Spec == Init /\ [][Next]_vars

(***************************************************************************)
(* The script on a page that reuses the nodes of its rows and tree items   *)
(***************************************************************************)
\* the text node of a name
TextNode == [tag |-> "#text", cls |-> {}, self |-> "none", contains |-> {}]

\* the page reuses the node of a row or tree item for another entry: the
\* name text, the link and the label are set in place and the glyph takes
\* the class of the new entry; the style of the glyph and the children the
\* script has added stay as they are
ReuseNode ==
  /\ HostMayAct
  /\ \E i \in ItemIds : \E f \in Pages :
    LET p == querySelector(dom[i].kids, "svg.octicon")
        q == querySelector(f[i].kids, "svg.octicon")
        sibs == Siblings(dom[i].kids, p)
        old == sibs[IndexOf(p)]
        new == [old EXCEPT !.cls = NodeAt(f[i].kids, q).cls]
        kids == WithSiblings(dom[i].kids, p, [sibs EXCEPT ![IndexOf(p)] = new])
    IN /\ dom[i].present
       /\ f[i].layout = dom[i].layout /\ f[i].upTree = dom[i].upTree
       /\ f[i].sel = dom[i].sel
       /\ Rendered(f[i]) # Rendered(dom[i])
       /\ p # <<>> /\ Len(q) = Len(p)
       /\ HostStep([dom EXCEPT ![i] = [f[i] EXCEPT !.kids = kids]],
                   InItem(i, <<ChildList(Desc(NameEl), <<TextNode>>, <<TextNode>>)>>
                             \o IF new.cls = old.cls THEN <<>>
                                ELSE <<Attributes(Desc(new))>>))

NextReuse ==
  \/ AddItem \/ ReuseNode \/ StripIcon \/ ResetStyle \/ ToggleFolder
  \/ InitScript \/ AttachObserver \/ HandleBatch

SpecReuse == Init /\ [][NextReuse]_vars

(***************************************************************************)
(* The script on a document that holds div rows and table rows at once     *)
(***************************************************************************)
MixedPages ==
  {Page(Row(DivLayout, S_index_php, BlobHref, "File", FileSvg),
        Row(TableLayout, S_src, TreeHref, "Directory", DirSvg),
        TreeItem(S_src, <<DirSvg>>)),
   Page(Row(TableLayout, S_index_php, BlobHref, "File", FileSvg),
        Row(DivLayout, S_src, TreeHref, "Directory", DirSvg),
        TreeItem(S_index_php, <<FileSvg>>))}

AddMixedItem == AddItemOf(MixedPages)
AddMixedContainer == AddContainerOf(MixedPages)

NextMixed ==
  \/ AddMixedItem \/ AddMixedContainer \/ RemoveItem
  \/ InitScript \/ AttachObserver \/ HandleBatch

SpecMixed == Init /\ [][NextMixed]_vars

(***************************************************************************)
(* The script on listings of symbolic links                                *)
(***************************************************************************)
AddSymlinkItem == AddItemOf(SymlinkPages)
AddSymlinkContainer == AddContainerOf(SymlinkPages)

NextSymlink ==
  \/ AddSymlinkItem \/ AddSymlinkContainer \/ RemoveItem \/ StripIcon \/ ResetStyle
  \/ WrapEditLink \/ InitScript \/ AttachObserver \/ HandleBatch

SpecSymlink == Init /\ [][NextSymlink]_vars

(***************************************************************************)
(* The script on listings of a repository with directories named tree and  *)
(* blob                                                                    *)
(***************************************************************************)
\* /o/r/blob/main/tree/f: a file of the directory tree
BlobInTreeDirHref == <<"o", "r", "blob", "main", "tree", "f">>
\* /o/r/tree/main/blob/d: a directory of the directory blob
TreeInBlobDirHref == <<"o", "r", "tree", "main", "blob", "d">>

PathPages ==
  {Page(Row(TableLayout, S_index_php, BlobInTreeDirHref, "File", FileSvg),
        Row(TableLayout, S_src, TreeHref, "Directory", DirSvg),
        TreeItem(S_index_php, <<FileSvg>>)),
   Page(Row(DivLayout, S_index_php, BlobHref, "File", FileSvg),
        Row(DivLayout, S_src, TreeInBlobDirHref, "Directory", DirSvg),
        TreeItem(S_src, <<DirSvg>>))}

AddPathItem == AddItemOf(PathPages)
AddPathContainer == AddContainerOf(PathPages)

NextPaths ==
  \/ AddPathItem \/ AddPathContainer \/ RemoveItem \/ StripIcon \/ ResetStyle
  \/ WrapEditLink \/ ToggleFolder \/ InitScript \/ AttachObserver \/ HandleBatch

SpecPaths == Init /\ [][NextPaths]_vars

(***************************************************************************)
(* The script on listings of unexpected structure                          *)
(***************************************************************************)
InitMalformed ==
  /\ ICON_MAPPINGS \in Tables
  /\ extension = FALSE
  /\ dom = [i \in ItemIds |-> Absent]
  /\ phase = "loaded"
  /\ pending = <<>>
  /\ hostOps = 0
  /\ last = NoRun
  /\ call = NoCall
  /\ calls = <<>>
  /\ build = NoBuild

AddMalformedItem == AddItemOf(MalformedPages)
AddMalformedContainer == AddContainerOf(MalformedPages)

NextMalformed ==
  \/ AddMalformedItem \/ AddMalformedContainer \/ RemoveItem \/ StripIcon
  \/ InitScript \/ AttachObserver \/ HandleBatch

SpecMalformed == InitMalformed /\ [][NextMalformed]_vars

(***************************************************************************)
(* The resolution functions on their own: any table, any name              *)
(***************************************************************************)
InitResolve ==
  /\ ICON_MAPPINGS \in FileTables \cup FolderTables
  /\ extension = FALSE
  /\ dom = [i \in ItemIds |-> Absent]
  /\ phase = "loaded"
  /\ pending = <<>>
  /\ hostOps = 0
  /\ last = NoRun
  /\ call = NoCall
  /\ calls = <<>>
  /\ build = NoBuild

CallGetFileIcon ==
  \E filename \in FileNames :
    /\ call = NoCall
    /\ call' = [fn |-> "getFileIcon", arg |-> filename,
                result |-> getFileIcon(ICON_MAPPINGS, filename)]
    /\ UNCHANGED <<ICON_MAPPINGS, extension, dom, phase, pending, hostOps, last, calls, build>>

CallGetFolderIcon ==
  \E foldername \in FolderNames :
    /\ call = NoCall
    /\ call' = [fn |-> "getFolderIcon", arg |-> foldername,
                result |-> getFolderIcon(ICON_MAPPINGS, foldername)]
    /\ UNCHANGED <<ICON_MAPPINGS, extension, dom, phase, pending, hostOps, last, calls, build>>

NextResolve == CallGetFileIcon \/ CallGetFolderIcon

SpecResolve == InitResolve /\ [][NextResolve]_vars

(***************************************************************************)
(* Sequences of calls of the resolution functions on one table             *)
(***************************************************************************)
S_c_c == <<"c", ".", "c">>
S_c_c_php == <<"c", ".", "c", ".", "p", "h", "p">>

\* the names of the calls of a sequence
SeqFileNames == {S_c_c, S_c_c_php, S_c_php}
SeqFolderNames == {S_github, S_dot_github}

\* a function that stores what it returned under the name it was called with
TableAfterCallMemo(M, c) ==
  IF ~Truthy(c.result) THEN M
  ELSE IF c.fn = "getFileIcon"
    THEN [M EXCEPT !.filenames = (c.arg :> c.result) @@ M.filenames]
  ELSE [M EXCEPT !.folders = (c.arg :> c.result) @@ M.folders]

\* ICON_MAPPINGS after a call: getFileIcon and getFolderIcon assign nothing
TableAfterCall(M, c) == M

CallInSequence(c) ==
  /\ Len(calls) < MaxCalls
  /\ call' = c
  /\ calls' = Append(calls, c)
  /\ ICON_MAPPINGS' = TableAfterCall(ICON_MAPPINGS, c)
  /\ UNCHANGED <<extension, dom, phase, pending, hostOps, last, build>>

CallGetFileIconAgain ==
  \E filename \in SeqFileNames :
    CallInSequence([fn |-> "getFileIcon", arg |-> filename,
                    result |-> getFileIcon(ICON_MAPPINGS, filename)])

CallGetFolderIconAgain ==
  \E foldername \in SeqFolderNames :
    CallInSequence([fn |-> "getFolderIcon", arg |-> foldername,
                    result |-> getFolderIcon(ICON_MAPPINGS, foldername)])

NextCalls == CallGetFileIconAgain \/ CallGetFolderIconAgain

SpecCalls == InitResolve /\ [][NextCalls]_vars

(***************************************************************************)
(* scripts/fetch-icons.js: the upstream definitions                        *)
(*                                                                         *)
(* A definitions file (fileIcons.ts, folderIcons.ts) is a sequence of      *)
(* tokens: an opening brace, a closing brace, name: 'icon', and a list     *)
(* fileExtensions: [...] (in fileIcons.ts) or folderNames: [...] (in       *)
(* folderIcons.ts).  Positions count from 1; 0 stands for "not found".     *)
(***************************************************************************)
LB == [k |-> "{", name |-> "", list |-> {}]
RB == [k |-> "}", name |-> "", list |-> {}]
NameTok(n) == [k |-> "name", name |-> n, list |-> {}]
ListTok(xs) == [k |-> "list", name |-> "", list |-> xs]

\* String.prototype.indexOf(tok, from)
indexOf(text, tok, from) ==
  IF \E q \in from..Len(text) : text[q] = tok
  THEN CHOOSE q \in from..Len(text) :
         text[q] = tok /\ \A r \in from..(q - 1) : text[r] # tok
  ELSE 0

\* iconPattern /{[^}]*name:\s*['"]([^'"]+)['"]/ tried at position p: the
\* positions where the name may end, no closing brace between p and there
NameEnds(text, p) ==
  {q \in (p + 1)..Len(text) :
     text[q].k = "name" /\ \A r \in (p + 1)..q : text[r] # RB}

iconPatternAt(text, p) == text[p] = LB /\ NameEnds(text, p) # {}

\* [^}]* is greedy: the match ends at the last such name
MatchEnd(text, p) ==
  CHOOSE q \in NameEnds(text, p) : \A r \in NameEnds(text, p) : r <= q

\* the first position from `from` on where iconPattern matches, 0 if none
FirstMatch(text, from) ==
  IF \E p \in from..Len(text) : iconPatternAt(text, p)
  THEN CHOOSE p \in from..Len(text) :
         iconPatternAt(text, p) /\ \A r \in from..(p - 1) : ~iconPatternAt(text, r)
  ELSE 0

\* content.matchAll(iconPattern): the matches left to right, each search
\* resuming after the previous match
RECURSIVE matchAllFrom(_, _)
matchAt(text, p, e) ==
  <<[index |-> p, name |-> text[e].name]>> \o matchAllFrom(text, e + 1)

matchNext(text, p) ==
  IF p = 0 THEN <<>> ELSE matchAt(text, p, MatchEnd(text, p))

matchAllFrom(text, from) == matchNext(text, FirstMatch(text, from))

matchAll(text) == matchAllFrom(text, 1)

\* the brace counting loop of a file icon block, from position i on
RECURSIVE ScanBraces(_, _, _, _, _)
ScanBraces(text, blockStart, i, braceCount, inBlock) ==
  IF i > Len(text)
  THEN [blockEnd |-> blockStart, braceCount |-> braceCount]
  ELSE IF text[i] = LB
  THEN ScanBraces(text, blockStart, i + 1, braceCount + 1, TRUE)
  ELSE IF text[i] = RB
  THEN IF inBlock /\ braceCount - 1 = 0
       THEN [blockEnd |-> i, braceCount |-> 0]
       ELSE ScanBraces(text, blockStart, i + 1, braceCount - 1, inBlock)
  ELSE ScanBraces(text, blockStart, i + 1, braceCount, inBlock)

\* block.match(/fileExtensions:\s*\[([^\]]+)\]/), block.match(/folderNames:
\* \s*\[([^\]]+)\]/): the names of the first list of the block
ListPositions(block) == {q \in 1..Len(block) : block[q].k = "list"}

FirstList(block) ==
  IF ListPositions(block) = {} THEN {}
  ELSE block[CHOOSE q \in ListPositions(block) :
               \A r \in ListPositions(block) : q <= r].list

\* the block of a file icon match: through the brace that brings the count
\* back to zero, skipped when there is none
FileBlockOf(text, match, scan) ==
  IF scan.blockEnd = match.index \/ scan.braceCount # 0
  THEN [name |-> match.name, index |-> match.index, skipped |-> TRUE,
        blockEnd |-> 0, block |-> <<>>]
  ELSE [name |-> match.name, index |-> match.index, skipped |-> FALSE,
        blockEnd |-> scan.blockEnd,
        block |-> SubSeq(text, match.index, scan.blockEnd)]

FileBlock(text, match) ==
  FileBlockOf(text, match, ScanBraces(text, match.index, match.index, 0, FALSE))

\* the block of a folder icon match: up to the first closing brace after
\* the start of the match
FolderBlockOf(text, match, blockEnd) ==
  IF blockEnd = 0 \/ blockEnd <= match.index
  THEN [name |-> match.name, index |-> match.index, skipped |-> TRUE,
        blockEnd |-> 0, block |-> <<>>]
  ELSE [name |-> match.name, index |-> match.index, skipped |-> FALSE,
        blockEnd |-> blockEnd,
        block |-> SubSeq(text, match.index, blockEnd - 1)]

FolderBlock(text, match) ==
  FolderBlockOf(text, match, indexOf(text, RB, match.index))

FileBlocks(text) ==
  [j \in 1..Len(matchAll(text)) |-> FileBlock(text, matchAll(text)[j])]

FolderBlocks(text) ==
  [j \in 1..Len(matchAll(text)) |-> FolderBlock(text, matchAll(text)[j])]

\* table[name] = iconName for the names of the first list of each block,
\* in the order of the blocks
RECURSIVE NamesOfBlocks(_, _)
AssignNames(table, names, iconName) ==
  [x \in (DOMAIN table) \cup names |->
     IF x \in names THEN iconName ELSE table[x]]

NamesOfBlocks(table, blocks) ==
  IF blocks = <<>> THEN table
  ELSE NamesOfBlocks(AssignNames(table, FirstList(Head(blocks).block),
                                 Head(blocks).name),
                     Tail(blocks))

(***************************************************************************)
(* scripts/fetch-icons.js: fetchIcons                                      *)
(***************************************************************************)
\* a path of the checkout or of the cache: a file with its content, or no
\* file
NoFile == [kind |-> "none", content |-> <<>>]
TsFile(text) == [kind |-> "ts", content |-> text]
JsonFile(object) == [kind |-> "json", content |-> object]
existsSync(f) == f.kind # "none"

S_yml == <<"y", "m", "l">>
S_yaml == <<"y", "a", "m", "l">>
S_html == <<"h", "t", "m", "l">>
S_m == <<"m">>
S_distignore == <<".", "d", "i">>

\* src/priority-list.js, abridged
priorityList ==
  [extensions |-> {S_php, S_yml},
   filenames |-> {S_distignore},
   folders |-> {S_src}]

\* language ids with the extensions they stand for, abridged: matlab and
\* objective-c both stand for m
LANGUAGE_TO_EXTENSIONS ==
  ("php" :> <<S_php>>) @@ ("matlab" :> <<S_m>>) @@ ("objective-c" :> <<S_m>>)

\* obj[key] = value
SetKey(obj, key, value) ==
  [x \in (DOMAIN obj) \cup {key} |-> IF x = key THEN value ELSE obj[x]]

\* an extension of a language is assigned whether or not it has an icon
AddAlways(fileExtensions, ext, iconName) == SetKey(fileExtensions, ext, iconName)

\* if (!fileIcons.fileExtensions[ext]) fileIcons.fileExtensions[ext] = iconName
AddIfAbsent(fileExtensions, ext, iconName) ==
  IF ~Truthy(Get(fileExtensions, ext))
  THEN SetKey(fileExtensions, ext, iconName)
  ELSE fileExtensions

\* extensions.forEach(ext => ...) for one language id
RECURSIVE AddExtensions(_, _, _)
AddExtensions(fileExtensions, extensions, iconName) ==
  IF extensions = <<>> THEN fileExtensions
  ELSE AddExtensions(AddIfAbsent(fileExtensions, Head(extensions), iconName),
                     Tail(extensions), iconName)

\* for (const [langId, iconName] of Object.entries(languageMappings)): the
\* entries in the order the ids were first written
RECURSIVE AddLanguages(_, _)
AddLanguage(fileExtensions, entry) ==
  IF entry.langId \in DOMAIN LANGUAGE_TO_EXTENSIONS
  THEN AddExtensions(fileExtensions, LANGUAGE_TO_EXTENSIONS[entry.langId],
                     entry.iconName)
  ELSE fileExtensions

AddLanguages(fileExtensions, languageMappings) ==
  IF languageMappings = <<>> THEN fileExtensions
  ELSE AddLanguages(AddLanguage(fileExtensions, Head(languageMappings)),
                    Tail(languageMappings))

\* the language icons part of parseTypeScriptConfigs: languageIcons.ts is
\* given by the entries parseLanguageIcons reads from it
WithLanguages(fileExtensions, languageIcons) ==
  IF existsSync(languageIcons)
  THEN AddLanguages(fileExtensions, languageIcons.content)
  ELSE fileExtensions

\* what a step of the fetch hands on: the tables, or the error thrown
Thrown(message) ==
  [threw |-> TRUE, error |-> message, warnings |-> {},
   fileBlocks |-> <<>>, folderBlocks |-> <<>>,
   fileIcons |-> [fileExtensions |-> << >>, fileNames |-> << >>],
   folderIcons |-> [folderNames |-> << >>]]

Parsed(fileBlocks, folderBlocks, languageIcons) ==
  [threw |-> FALSE, error |-> "",
   warnings |-> IF folderBlocks = <<>> THEN {"No folder icon definitions found"}
                ELSE {},
   fileBlocks |-> fileBlocks, folderBlocks |-> folderBlocks,
   fileIcons |->
     [fileExtensions |->
        WithLanguages(NamesOfBlocks(<< >>, fileBlocks), languageIcons),
      fileNames |-> << >>],
   folderIcons |-> [folderNames |-> NamesOfBlocks(<< >>, folderBlocks)]]

\* parseTypeScriptConfigs(fileIconsPath, folderIconsPath): both files are
\* read, the folder file as text whatever its format
parseTypeScriptConfigs(fileIconsSource, folderIconsSource, languageIcons) ==
  IF ~existsSync(fileIconsSource) \/ ~existsSync(folderIconsSource)
  THEN Thrown("ENOENT: no such file or directory")
  ELSE IF matchAll(fileIconsSource.content) = <<>>
  THEN Thrown("No file icon definitions found in TypeScript config")
  ELSE Parsed(FileBlocks(fileIconsSource.content),
              FolderBlocks(folderIconsSource.content), languageIcons)

\* the JSON branch of copyIconConfigs: both files are copied and parsed;
\* TypeScript text is no JSON
copyJsonConfigs(fileIconsSource, folderIconsSource) ==
  IF ~existsSync(folderIconsSource)
  THEN Thrown("ENOENT: no such file or directory")
  ELSE IF folderIconsSource.kind = "ts"
  THEN Thrown("Unexpected token in JSON")
  ELSE [threw |-> FALSE, error |-> "", warnings |-> {},
        fileBlocks |-> <<>>, folderBlocks |-> <<>>,
        fileIcons |-> fileIconsSource.content,
        folderIcons |-> folderIconsSource.content]

\* a JSON file read as TypeScript text holds no name: '...' at all
AsText(f) == IF f.kind = "json" THEN TsFile(<<>>) ELSE f

copyIconConfigs(up) ==
  IF ~existsSync(up.fileIconsTs) /\ ~existsSync(up.fileIconsJson)
  THEN Thrown("Icon config files not found")
  ELSE IF existsSync(up.fileIconsTs)
  THEN parseTypeScriptConfigs(
         up.fileIconsTs,
         IF existsSync(up.folderIconsTs) THEN up.folderIconsTs
         ELSE AsText(up.folderIconsJson),
         up.languageIcons)
  ELSE copyJsonConfigs(
         up.fileIconsJson,
         IF existsSync(up.folderIconsTs) THEN up.folderIconsTs
         ELSE up.folderIconsJson)

\* the icon names of all the names of a table, curated or not
AllIconsOf(table, names) == {table[x] : x \in DOMAIN table}

\* the icon names table[name] of the curated names that have one
IconsOf(table, names) ==
  {Get(table, x) : x \in {y \in names : Truthy(Get(table, y))}}

\* the neededIcons of copyNeededIcons
neededIcons(fileIcons, folderIcons) ==
  IconsOf(fileIcons.fileExtensions, priorityList.extensions)
    \cup IconsOf(fileIcons.fileNames, priorityList.filenames)
    \cup IconsOf(folderIcons.folderNames, priorityList.folders)

\* the files cache/fileIcons.json and cache/folderIcons.json after
\* copyIconConfigs: written at the end of parseTypeScriptConfigs, copied
\* one after the other in the JSON branch
CacheAfterConfigs(up, cache, cfg) ==
  IF ~cfg.threw
  THEN [cache EXCEPT !.fileIcons = JsonFile(cfg.fileIcons),
                     !.folderIcons = JsonFile(cfg.folderIcons)]
  ELSE IF ~existsSync(up.fileIconsTs) /\ existsSync(up.fileIconsJson)
  THEN [cache EXCEPT
          !.fileIcons = up.fileIconsJson,
          !.folderIcons = IF existsSync(up.folderIconsTs)
                          THEN up.folderIconsTs
                          ELSE cache.folderIcons]
  ELSE cache

NoFetch ==
  [threw |-> FALSE, error |-> "", warnings |-> {},
   fileBlocks |-> <<>>, folderBlocks |-> <<>>,
   fileIcons |-> [fileExtensions |-> << >>, fileNames |-> << >>],
   folderIcons |-> [folderNames |-> << >>],
   needed |-> {}, copied |-> {}, missing |-> {}]

NoMappings ==
  [extensions |-> << >>, filenames |-> << >>, folders |-> << >>]

\* fetchIcons after copyIconConfigs: an error ends the process with code 1;
\* otherwise copyNeededIcons copies the needed icons the checkout holds to
\* cache/icons and reports the others as missing
FetchWith(b, cfg, needed) ==
  IF cfg.threw
  THEN [b EXCEPT !.step = "fetchFailed", !.exitCode = 1,
                 !.cache = CacheAfterConfigs(b.upstream, b.cache, cfg),
                 !.fetch = [cfg @@ NoFetch EXCEPT !.needed = {}]]
  ELSE [b EXCEPT !.step = "fetched", !.exitCode = 0,
                 !.cache = [CacheAfterConfigs(b.upstream, b.cache, cfg)
                              EXCEPT !.icons = b.cache.icons
                                                 \cup (needed \cap b.upstream.icons)],
                 !.fetch = [cfg @@ NoFetch EXCEPT
                              !.needed = needed,
                              !.copied = needed \cap b.upstream.icons,
                              !.missing = needed \ b.upstream.icons]]

FetchOf(b, cfg) == FetchWith(b, cfg, neededIcons(cfg.fileIcons, cfg.folderIcons))

fetchIcons(b) == FetchOf(b, copyIconConfigs(b.upstream))

FetchIcons ==
  /\ build.step = "checkout"
  /\ build' = fetchIcons(build)
  /\ UNCHANGED <<ICON_MAPPINGS, extension, dom, phase, pending, hostOps, last, call, calls>>

(***************************************************************************)
(* scripts/build.js: buildIconMappings                                     *)
(***************************************************************************)
svgToDataUri(svgContent) == <<"data:image/svg+xml;base64", svgContent>>

manualFilenameMappings == (S_distignore :> "git")

manualExtensionMappings ==
  (S_yml :> "yaml") @@ (S_yaml :> "yaml") @@ (S_html :> "html")

NoManualMappings == << >>

\* Object.assign(target, source)
assign(target, source) ==
  [x \in (DOMAIN target) \cup (DOMAIN source) |->
     IF x \in DOMAIN source THEN source[x] ELSE target[x]]

\* the curated names with an icon name whose svg is in cache/icons, each
\* with the data URI of that svg
MapNames(table, names, icons) ==
  [x \in {y \in names : Truthy(Get(table, y)) /\ Get(table, y) \in icons}
     |-> svgToDataUri(Get(table, x))]

buildMappings(fileExtensions, fileNames, folderNames, icons) ==
  [extensions |-> MapNames(fileExtensions, priorityList.extensions, icons),
   filenames |-> MapNames(fileNames, priorityList.filenames, icons),
   folders |-> MapNames(folderNames, priorityList.folders, icons)]

\* buildIconMappings: without the cached definitions, or with a cached
\* file JSON.parse rejects, the process ends with code 1
buildIconMappings(b) ==
  IF b.cache.fileIcons.kind # "json" \/ b.cache.folderIcons.kind # "json"
  THEN [b EXCEPT !.step = "buildFailed", !.exitCode = 1]
  ELSE [b EXCEPT
          !.step = "built", !.exitCode = 0,
          !.mappings =
            buildMappings(
              assign(b.cache.fileIcons.content.fileExtensions, manualExtensionMappings),
              assign(b.cache.fileIcons.content.fileNames, manualFilenameMappings),
              b.cache.folderIcons.content.folderNames,
              b.cache.icons)]

BuildIconMappings ==
  /\ build.step \in {"checkout", "fetched", "fetchFailed"}
  /\ build' = buildIconMappings(build)
  /\ UNCHANGED <<ICON_MAPPINGS, extension, dom, phase, pending, hostOps, last, call, calls>>

NextBuild == FetchIcons \/ BuildIconMappings

\* the state of the variables the fetch and the build leave alone
InitCheckout(up) ==
  /\ ICON_MAPPINGS = TableWithDefaults
  /\ extension = FALSE
  /\ dom = [i \in ItemIds |-> Absent]
  /\ phase = "loaded"
  /\ pending = <<>>
  /\ hostOps = 0
  /\ last = NoRun
  /\ call = NoCall
  /\ calls = <<>>
  /\ build = [step |-> "checkout", upstream |-> up,
              cache |-> [fileIcons |-> NoFile, folderIcons |-> NoFile, icons |-> {}],
              fetch |-> NoFetch, mappings |-> NoMappings, exitCode |-> 0]

Checkout(fileIconsTs, folderIconsTs, fileIconsJson, folderIconsJson,
         languageIcons, icons) ==
  [fileIconsTs |-> fileIconsTs, folderIconsTs |-> folderIconsTs,
   fileIconsJson |-> fileIconsJson, folderIconsJson |-> folderIconsJson,
   languageIcons |-> languageIcons, icons |-> icons]

(***************************************************************************)
(* The fetch and the build on checkouts whose definitions files hold any   *)
(* text of MaxTokens tokens, and on checkouts that lack some of the files  *)
(***************************************************************************)
FileTokens == {LB, RB, NameTok("php"), NameTok("yaml"), ListTok({S_php})}
FolderTokens ==
  {LB, RB, NameTok("folder-src"), NameTok("folder"), ListTok({S_src})}

Texts(tokens) == UNION {[1..n -> tokens] : n \in 0..MaxTokens}

\* { name: 'php', fileExtensions: ['php'] }
PlainFileText == <<LB, NameTok("php"), ListTok({S_php}), RB>>
\* { name: 'folder-src', folderNames: ['src'] }
PlainFolderText == <<LB, NameTok("folder-src"), ListTok({S_src}), RB>>

PlainFileJson == [fileExtensions |-> (S_php :> "php"), fileNames |-> << >>]
PlainFolderJson == [folderNames |-> (S_src :> "folder-src")]

UpstreamIcons == {"php", "yaml", "git", "folder-src"}

InitParse ==
  \/ \E text \in Texts(FileTokens) :
       InitCheckout(Checkout(TsFile(text), TsFile(PlainFolderText), NoFile,
                             NoFile, NoFile, UpstreamIcons))
  \/ \E text \in Texts(FolderTokens) :
       InitCheckout(Checkout(TsFile(PlainFileText), TsFile(text), NoFile,
                             NoFile, NoFile, UpstreamIcons))
  \/ \E fileTs \in BOOLEAN, folderTs \in BOOLEAN, fileJson \in BOOLEAN,
        folderJson \in BOOLEAN :
       InitCheckout(Checkout(
         IF fileTs THEN TsFile(PlainFileText) ELSE NoFile,
         IF folderTs THEN TsFile(PlainFolderText) ELSE NoFile,
         IF fileJson THEN JsonFile(PlainFileJson) ELSE NoFile,
         IF folderJson THEN JsonFile(PlainFolderJson) ELSE NoFile,
         NoFile, UpstreamIcons))

SpecParse == InitParse /\ [][NextBuild]_vars

(***************************************************************************)
(* The fetch and the build on checkouts with languageIcons.ts              *)
(***************************************************************************)
\* the language ids of languageIcons.ts, sql being one that stands for no
\* extension; the icon of a language is named after it
LangIds == {"php", "matlab", "objective-c", "sql"}

LangEntries ==
  {e \in UNION {[1..n -> LangIds] : n \in 0..MaxLangs} :
     \A j \in 1..Len(e), k \in 1..Len(e) : e[j] = e[k] => j = k}

languageMappingsOf(ids) ==
  [j \in 1..Len(ids) |-> [langId |-> ids[j], iconName |-> ids[j]]]

\* fileIcons.ts with direct icons for php, for m, for both, for neither
DirectTexts ==
  {<<LB, NameTok("elephant"), ListTok({S_php}), RB>>,
   <<LB, NameTok("mint"), ListTok({S_m}), RB>>,
   <<LB, NameTok("elephant"), ListTok({S_php}), RB,
     LB, NameTok("mint"), ListTok({S_m}), RB>>,
   <<LB, NameTok("yaml"), ListTok({S_yaml}), RB>>}

InitLanguages ==
  \E text \in DirectTexts, ids \in LangEntries, present \in BOOLEAN :
    /\ ~present => ids = <<>>
    /\ InitCheckout(Checkout(
         TsFile(text), TsFile(PlainFolderText), NoFile, NoFile,
         IF present THEN TsFile(languageMappingsOf(ids)) ELSE NoFile,
         UpstreamIcons \cup {"elephant", "mint"} \cup LangIds))

SpecLanguages == InitLanguages /\ [][NextBuild]_vars

(***************************************************************************)
(* The fetch and the build on checkouts with JSON definitions: every       *)
(* table over a few names, every set of svg files                          *)
(***************************************************************************)
\* a table that gives icon to each name of a set
Only(names, icon) == [x \in names |-> icon]

\* m and oth are not in the curated list
JsonFileIcons ==
  {[fileExtensions |-> Only(php, "php") @@ Only(yml, "yaml2") @@ Only(m, "matlab"),
    fileNames |-> Only(dist, "git")] :
     php \in SUBSET {S_php}, yml \in SUBSET {S_yml}, m \in SUBSET {S_m},
     dist \in SUBSET {S_distignore}}

JsonFolderIcons ==
  {[folderNames |-> Only(src, "folder-src") @@ Only(oth, "folder-other")] :
     src \in SUBSET {S_src}, oth \in SUBSET {S_other}}

\* the svg files a checkout may lack
SomeIcons == {"php", "yaml", "yaml2", "git", "folder-src"}

InitSelect ==
  \E fileIcons \in JsonFileIcons, folderIcons \in JsonFolderIcons,
     icons \in SUBSET SomeIcons :
    InitCheckout(Checkout(NoFile, NoFile, JsonFile(fileIcons),
                          JsonFile(folderIcons), NoFile,
                          icons \cup {"matlab", "folder-other"}))

SpecSelect == InitSelect /\ [][NextBuild]_vars

(***************************************************************************)
(* Expansion of the patterns block of an icon definition,                  *)
(* parseTypeScriptConfigs                                                  *)
(***************************************************************************)
EcmascriptExtensions ==
  << <<"j", "s">>, <<"m", "j", "s">>, <<"c", "j", "s">>,
     <<"t", "s">>, <<"m", "t", "s">>, <<"c", "t", "s">> >>
ConfigurationExtensions ==
  << <<"j", "s", "o", "n">>, <<"j", "s", "o", "n", "c">>,
     <<"j", "s", "o", "n", "5">>, S_yaml, S_yml, <<"t", "o", "m", "l">> >>

\* the keys of FILE_NAME_PATTERNS
K_ecmascript == <<"e", "c", "m", "a", "s", "c", "r", "i", "p", "t">>
K_configuration ==
  <<"c", "o", "n", "f", "i", "g", "u", "r", "a", "t", "i", "o", "n">>
K_nodeEcosystem ==
  <<"n", "o", "d", "e", "E", "c", "o", "s", "y", "s", "t", "e", "m">>
K_yaml == <<"y", "a", "m", "l">>

FILE_NAME_PATTERNS ==
  (K_ecmascript :> EcmascriptExtensions)
  @@ (K_configuration :> ConfigurationExtensions)
  @@ (K_nodeEcosystem :> EcmascriptExtensions \o ConfigurationExtensions)
  @@ (K_yaml :> <<S_yaml, S_yml>>)

\* the pattern kinds as the definitions name them: FileNamePattern.P
P_Ecmascript == <<"E", "c", "m", "a", "s", "c", "r", "i", "p", "t">>
P_Configuration ==
  <<"C", "o", "n", "f", "i", "g", "u", "r", "a", "t", "i", "o", "n">>
P_NodeEcosystem ==
  <<"N", "o", "d", "e", "E", "c", "o", "s", "y", "s", "t", "e", "m">>
P_Yaml == <<"Y", "a", "m", "l">>
PatternKinds == {P_Ecmascript, P_Configuration, P_NodeEcosystem, P_Yaml}

\* extensions.forEach(ext => fileIcons.fileNames[`${baseName}.${ext}`] = iconName)
RECURSIVE ExpandInto(_, _, _, _)
ExpandInto(fileNames, baseName, extensions, iconName) ==
  IF extensions = <<>> THEN fileNames
  ELSE ExpandInto(SetKey(fileNames, baseName \o <<DOT>> \o Head(extensions), iconName),
                  baseName, Tail(extensions), iconName)

\* const patternType = entryMatch[2].toLowerCase()
patternTypeOf(P) == toLowerCase(P)

\* one entry 'base': FileNamePattern.P; a pattern type that is no key of
\* FILE_NAME_PATTERNS gives undefined and the entry is passed over
ExpandEntry(fileNames, entry, iconName) ==
  LET baseName == entry.base
      patternType == patternTypeOf(entry.kind)
  IN IF patternType \in DOMAIN FILE_NAME_PATTERNS
       THEN ExpandInto(fileNames, baseName, FILE_NAME_PATTERNS[patternType], iconName)
       ELSE fileNames

\* patternEntries.forEach
RECURSIVE ExpandPatterns(_, _, _)
ExpandPatterns(fileNames, entries, iconName) ==
  IF entries = <<>> THEN fileNames
  ELSE ExpandPatterns(ExpandEntry(fileNames, Head(entries), iconName),
                      Tail(entries), iconName)

\* the patterns block of one icon definition is expanded into the filename
\* table built so far
ExpandPatternsOfBlock ==
  /\ build.step = "patterns"
  /\ build' = [build EXCEPT
                 !.step = "expanded",
                 !.fileNames = ExpandPatterns(build.fileNames, build.entries,
                                              build.iconName)]
  /\ UNCHANGED <<ICON_MAPPINGS, extension, dom, phase, pending, hostOps, last,
                 call, calls>>

S_webpack_config == <<"w", ".", "c">>
S_eslintrc == <<".", "e">>
PatternBases == {S_webpack_config, S_eslintrc}
PatternEntries == [base : PatternBases, kind : PatternKinds]
PatternBlocks ==
  UNION {[1..n -> PatternEntries] : n \in 0..MaxEntries}

\* the filename table before the block: empty, or with a name of the block
\* given to another icon by an earlier definition
TablesBefore == {<< >>, (S_webpack_config \o <<DOT>> \o <<"j", "s">>) :> "javascript"}

InitPatterns ==
  /\ ICON_MAPPINGS = TableWithDefaults
  /\ extension = FALSE
  /\ dom = [i \in ItemIds |-> Absent]
  /\ phase = "loaded"
  /\ pending = <<>>
  /\ hostOps = 0
  /\ last = NoRun
  /\ call = NoCall
  /\ calls = <<>>
  /\ \E entries \in PatternBlocks, iconName \in {"webpack", "eslint"},
        fileNames \in TablesBefore :
       build = [step |-> "patterns", iconName |-> iconName,
                entries |-> entries, fileNames |-> fileNames]

SpecPatterns == InitPatterns /\ [][ExpandPatternsOfBlock]_vars

(***************************************************************************)
(* fetchIcons with syncMaterialIconTheme: the checkout is cloned or        *)
(* updated by git before the definitions are read                          *)
(***************************************************************************)
\* the directory of the checkout before the first clone
NoCheckout == Checkout(NoFile, NoFile, NoFile, NoFile, NoFile, {})

\* a sync whose failed git pull is not caught
syncStrict(cloned, existing, remote, gitOk) ==
  IF gitOk THEN [threw |-> FALSE, outcome |-> IF cloned THEN "updated" ELSE "cloned",
                 upstream |-> remote]
  ELSE [threw |-> TRUE, outcome |-> IF cloned THEN "pullFailed" ELSE "cloneFailed",
        upstream |-> existing]

\* syncMaterialIconTheme: git pull in an existing checkout, its failure is
\* caught; git clone otherwise, its failure is thrown
syncMaterialIconTheme(cloned, existing, remote, gitOk) ==
  IF cloned
  THEN IF gitOk
       THEN [threw |-> FALSE, outcome |-> "updated", upstream |-> remote]
       ELSE [threw |-> FALSE, outcome |-> "pullFailed", upstream |-> existing]
  ELSE IF gitOk
       THEN [threw |-> FALSE, outcome |-> "cloned", upstream |-> remote]
       ELSE [threw |-> TRUE, outcome |-> "cloneFailed", upstream |-> existing]

\* fetchIcons: the sync, then copyIconConfigs and copyNeededIcons on the
\* checkout the sync has left; every error ends the process with code 1
fetchIconsAfter(b, s) ==
  IF s.threw
  THEN [b EXCEPT !.step = "fetchFailed", !.exitCode = 1, !.sync = s.outcome,
                 !.fetch = [Thrown("Command failed: git clone") @@ NoFetch
                              EXCEPT !.needed = {}]]
  ELSE [fetchIcons([b EXCEPT !.upstream = s.upstream]) EXCEPT !.sync = s.outcome]

SyncAndFetchIcons ==
  /\ build.step = "checkout"
  /\ \E gitOk \in BOOLEAN :
       build' = fetchIconsAfter(
                  build,
                  syncMaterialIconTheme(build.cloned, build.upstream,
                                        build.remote, gitOk))
  /\ UNCHANGED <<ICON_MAPPINGS, extension, dom, phase, pending, hostOps, last,
                 call, calls>>

\* checkouts: the definitions as TypeScript, as JSON, as TypeScript without
\* a definition, and without the definitions files
SyncCheckouts ==
  {Checkout(TsFile(PlainFileText), TsFile(PlainFolderText), NoFile, NoFile,
            NoFile, UpstreamIcons),
   Checkout(NoFile, NoFile, JsonFile(PlainFileJson), JsonFile(PlainFolderJson),
            NoFile, {"php"}),
   Checkout(TsFile(<<LB, RB>>), TsFile(PlainFolderText), NoFile, NoFile,
            NoFile, UpstreamIcons),
   Checkout(NoFile, NoFile, NoFile, NoFile, NoFile, UpstreamIcons)}

InitSync ==
  /\ ICON_MAPPINGS = TableWithDefaults
  /\ extension = FALSE
  /\ dom = [i \in ItemIds |-> Absent]
  /\ phase = "loaded"
  /\ pending = <<>>
  /\ hostOps = 0
  /\ last = NoRun
  /\ call = NoCall
  /\ calls = <<>>
  /\ \E cloned \in BOOLEAN, existing \in SyncCheckouts, remote \in SyncCheckouts,
        icons \in {{}, {"git"}} :
       build = [step |-> "checkout", cloned |-> cloned, sync |-> "none",
                upstream |-> IF cloned THEN existing ELSE NoCheckout,
                remote |-> remote,
                cache |-> [fileIcons |-> NoFile, folderIcons |-> NoFile,
                           icons |-> icons],
                fetch |-> NoFetch, mappings |-> NoMappings, exitCode |-> 0]

NextSync == SyncAndFetchIcons \/ BuildIconMappings

SpecSync == InitSync /\ [][NextSync]_vars

(***************************************************************************)
(* Vocabulary of the properties                                            *)
(***************************************************************************)
\* the injected elements of an item
MarkerPaths(it) ==
  {k \in 1..Len(Descendants(it.kids)) : IsMarker(NodeAt(it.kids, Descendants(it.kids)[k]))}
MarkerCount(it) == Cardinality(MarkerPaths(it))

\* the original glyph of an item: path, node, whether it is suppressed
GlyphPath(it) ==
  IF it.layout = "tree" \/ it.upTree THEN querySelector(it.kids, "svg.octicon")
  ELSE querySelector(it.kids, "svg[class*=octicon-file]")
HasGlyph(it) == it.present /\ GlyphPath(it) # <<>>
Glyph(it) == NodeAt(it.kids, GlyphPath(it))
GlyphHidden(it) == Glyph(it).style = HiddenStyle

\* what resolution yields for the item as it is classified by the script
Resolution(M, it) ==
  IF it.upTree THEN M.defaultFolder
  ELSE IF it.layout = "tree" THEN TreeIcon(M, trim(it.text), Glyph(it))
  ELSE RowIcon(M, it, RowName(it), Glyph(it))
NoIcon(v) == v \in {Undefined, Null}

\* the records of a batch, and the items mounted or unmounted by one of them
Records(batch) == {batch[k] : k \in 1..Len(batch)}
Nodes(ns) == {ns[k] : k \in 1..Len(ns)}
Remounted(batch, i) ==
  \E m \in Records(batch) : \E n \in Nodes(m.added) \cup Nodes(m.removed) :
    n.self = i \/ i \in n.contains
MarkerRemovedIn(batch, i) ==
  \E m \in Records(batch) : m.item = i /\ \E n \in Nodes(m.removed) : MARKER \in n.cls
StyleChangedIn(batch, i) ==
  \E m \in Records(batch) : m.item = i /\ m.type = "attributes" /\ m.target.tag = "svg"
EditLinkAddedIn(batch, i) ==
  \E m \in Records(batch) : m.item = i /\ \E n \in Nodes(m.added) : n.tag = "a" /\ RGH_EDIT \in n.cls

\* how often an item was reconciled in a run
Times(items, i) == Cardinality({k \in 1..Len(items) : items[k] = i})

(***************************************************************************)
(* C1: in every reachable state each row, parent-directory row and tree    *)
(* item of the page holds at most one element with the class               *)
(* material-icon-replacement.                                              *)
(***************************************************************************)
C1_AtMostOneReplacement ==
  \A i \in ItemIds : dom[i].present => MarkerCount(dom[i]) <= 1

\* a tree folder whose glyph the page replaced has been reconciled again and
\* holds its one replacement
C1_Witness ==
  \E i \in ItemIds :
    /\ dom[i].layout = "tree" /\ HasGlyph(dom[i])
    /\ "octicon-file-directory-open-fill" \in Glyph(dom[i]).cls
    /\ last.kind = "batch" /\ Times(last.items, i) = 1
    /\ MarkerCount(dom[i]) = 1

(***************************************************************************)
(* C2: after every completed reconciliation of an original, the original   *)
(* is hidden if and only if an injected replacement exists for it.         *)
(***************************************************************************)
C2_HiddenIffReplaced ==
  last.kind # "none" =>
    \A i \in ItemIds :
      (Times(last.items, i) > 0 /\ HasGlyph(dom[i])) =>
        (GlyphHidden(dom[i]) <=> MarkerCount(dom[i]) >= 1)

(***************************************************************************)
(* C3: when a batch reports the removal of an injected replacement whose   *)
(* original is still in the document, exactly one replacement exists for   *)
(* that original after the batch (rows, parent-directory row, tree items). *)
(***************************************************************************)
C3_OrphanRepaired ==
  last.kind = "batch" =>
    \A i \in ItemIds :
      (MarkerRemovedIn(last.batch, i) /\ ~Remounted(last.batch, i) /\ HasGlyph(dom[i])) =>
        MarkerCount(dom[i]) = 1

(***************************************************************************)
(* C4: when a batch reports a style change of an original whose            *)
(* replacement exists, the original is hidden after the batch and there is *)
(* still exactly one replacement (row list and tree view).                 *)
(***************************************************************************)
C4_Resuppressed ==
  last.kind = "batch" =>
    \A i \in ItemIds :
      (StyleChangedIn(last.batch, i) /\ ~Remounted(last.batch, i) /\ HasGlyph(dom[i])
         /\ MarkerCount(dom[i]) >= 1) =>
        (GlyphHidden(dom[i]) /\ MarkerCount(dom[i]) = 1)

(***************************************************************************)
(* C5: running replaceIcons, or the per-item step, a second time on the    *)
(* DOM the first run left adds no injected element, writes nothing and     *)
(* leaves the DOM as the first run left it.                                *)
(***************************************************************************)
C5_Idempotent ==
  LET once == replaceIcons(ICON_MAPPINGS, dom)
      twice == replaceIcons(ICON_MAPPINGS, once.dom)
  IN /\ twice.dom = once.dom
     /\ twice.replaced = 0
     /\ twice.recs = <<>>
     /\ \A i \in ItemIds :
          dom[i].present =>
            LET first == Reconcile(ICON_MAPPINGS, dom[i])
            IN Reconcile(ICON_MAPPINGS, first.item) = NoChange(first.item)

\* the initial pass has just injected into a wrapped row, the parent row
\* and a tree item
C5_Witness ==
  /\ last.kind = "init"
  /\ \A i \in ItemIds : Times(last.items, i) = 1 /\ MarkerCount(dom[i]) = 1
  /\ \E i \in ItemIds : dom[i].upTree
  /\ \E i \in ItemIds : \E k \in 1..Len(dom[i].kids) :
       IsEditLink(dom[i].kids[k]) /\ IsMarkerImg(dom[i].kids[k].kids[1])

(***************************************************************************)
(* C6: when a batch reports an edit link added around a processed          *)
(* original whose injected image was left behind as the next sibling of    *)
(* the link, the batch ends with exactly one injected image, inside the    *)
(* link, next to the hidden original; no run of the script removes or      *)
(* moves an edit link or one of its other children.                        *)
(***************************************************************************)
\* the children of an element without the injected ones, styles left out
Unstyled(n) == [n EXCEPT !.style = NoStyle]
NotMarker(n) == ~IsMarker(n)
OwnChildren(kids) ==
  LET top == SelectSeq(kids, NotMarker)
  IN [k \in 1..Len(top) |->
        [Unstyled(top[k]) EXCEPT
           !.kids = LET inner == SelectSeq(top[k].kids, NotMarker)
                    IN [j \in 1..Len(inner) |-> Unstyled(inner[j])]]]

\* the edit links among them, each at its place
EditLinksInPlace(kids) ==
  LET own == OwnChildren(kids)
  IN [k \in 1..Len(own) |-> IF IsEditLink(own[k]) THEN own[k] ELSE El("other", {}, <<>>)]

IconLeftOutside(it) ==
  /\ it.present
  /\ \E k \in 1..(Len(it.kids) - 1) :
       /\ IsEditLink(it.kids[k]) /\ IsMarker(it.kids[k + 1])
       /\ \A j \in 1..Len(it.kids[k].kids) : ~IsMarker(it.kids[k].kids[j])

IconInsideLink(it) ==
  /\ MarkerCount(it) = 1
  /\ \E k \in 1..Len(it.kids) :
       /\ IsEditLink(it.kids[k])
       /\ \E j \in 1..Len(it.kids[k].kids) : IsMarkerImg(it.kids[k].kids[j])
       /\ \E j \in 1..Len(it.kids[k].kids) :
            IsFileGlyph(it.kids[k].kids[j]) /\ it.kids[k].kids[j].style = HiddenStyle

C6_EditLinkCoexistence ==
  [][/\ HandleBatch =>
          \A i \in ItemIds :
            (EditLinkAddedIn(pending, i) /\ ~Remounted(pending, i) /\ IconLeftOutside(dom[i]))
              => IconInsideLink(dom'[i])
     /\ (HandleBatch \/ InitScript) =>
          \A i \in ItemIds : EditLinksInPlace(dom'[i].kids) = EditLinksInPlace(dom[i].kids)
    ]_vars

\* a batch that reported the edit link has moved the image into it (the
\* removal of the image left outside is queued)
C6_Witness ==
  /\ last.kind = "batch"
  /\ \E i \in ItemIds :
       /\ EditLinkAddedIn(last.batch, i)
       /\ IconInsideLink(dom[i])
       /\ MarkerRemovedIn(pending, i)

(***************************************************************************)
(* C7: the per-item step on an unprocessed row, parent row or tree item    *)
(* for which resolution yields no icon changes nothing in the DOM.         *)
(***************************************************************************)
C7_NoIconNoChange ==
  \A i \in ItemIds :
    (HasGlyph(dom[i]) /\ MarkerCount(dom[i]) = 0 /\ NoIcon(Resolution(ICON_MAPPINGS, dom[i])))
      => Reconcile(ICON_MAPPINGS, dom[i]) = NoChange(dom[i])

\* the initial pass has visited a row, the parent row and a tree item that
\* resolve to nothing and has left all three as the page rendered them
C7_Witness ==
  /\ last.kind = "init"
  /\ \E i \in ItemIds : dom[i].upTree
  /\ \A i \in ItemIds :
       /\ Times(last.items, i) = 1
       /\ HasGlyph(dom[i])
       /\ NoIcon(Resolution(ICON_MAPPINGS, dom[i]))
       /\ MarkerCount(dom[i]) = 0
       /\ Glyph(dom[i]).style = NoStyle

(***************************************************************************)
(* C8: the per-item step on an unprocessed, unwrapped row or tree item     *)
(* whose name resolves hides the glyph and inserts exactly one marked      *)
(* image with the resolved payload as the next sibling of the glyph.       *)
(***************************************************************************)
C8_InjectAdjacent ==
  \A i \in ItemIds :
    (HasGlyph(dom[i]) /\ ~dom[i].upTree /\ ~HasEditLink(dom[i])
       /\ MarkerCount(dom[i]) = 0 /\ ~NoIcon(Resolution(ICON_MAPPINGS, dom[i])))
      => LET after == Reconcile(ICON_MAPPINGS, dom[i]).item
             p == GlyphPath(after)
             sibs == Siblings(after.kids, p)
         IN /\ Glyph(after).style = HiddenStyle
            /\ MarkerCount(after) = 1
            /\ IndexOf(p) < Len(sibs)
            /\ sibs[IndexOf(p) + 1].tag = "img"
            /\ MARKER \in sibs[IndexOf(p) + 1].cls
            /\ sibs[IndexOf(p) + 1].src = Resolution(ICON_MAPPINGS, dom[i])
            /\ OwnChildren(after.kids) = OwnChildren(dom[i].kids)

\* the file row named i.php has been processed: hidden glyph, then the php
\* image, then the name
C8_Witness ==
  /\ last.kind # "none"
  /\ Times(last.items, "r1") = 1
  /\ RowName(dom["r1"]) = S_index_php
  /\ dom["r1"].kids = <<Hide(FileSvg), createIconImg(IconPhp), NameEl>>

(***************************************************************************)
(* C9: no run of the script (initial pass, batch) removes, moves or        *)
(* changes an element that does not carry the marker class, except that    *)
(* it sets the style of an original to visibility hidden, position         *)
(* absolute.                                                               *)
(***************************************************************************)
StylesOf(kids) ==
  LET own == SelectSeq(kids, NotMarker)
  IN [k \in 1..Len(own) |->
        <<own[k].style>> \o
        LET inner == SelectSeq(own[k].kids, NotMarker)
        IN [j \in 1..Len(inner) |-> inner[j].style]]

OnlyHidden(before, after) ==
  /\ Len(before) = Len(after)
  /\ \A k \in 1..Len(before) :
       /\ Len(before[k]) = Len(after[k])
       /\ \A j \in 1..Len(before[k]) : after[k][j] \in {before[k][j], HiddenStyle}

C9_OriginalsStay ==
  [][(HandleBatch \/ InitScript) =>
       \A i \in ItemIds :
         /\ dom'[i].present = dom[i].present
         /\ OwnChildren(dom'[i].kids) = OwnChildren(dom[i].kids)
         /\ OnlyHidden(StylesOf(dom[i].kids), StylesOf(dom'[i].kids))
         /\ [dom'[i] EXCEPT !.kids = <<>>] = [dom[i] EXCEPT !.kids = <<>>]
    ]_vars

\* a batch has removed an element, and it was an injected image
C9_Witness ==
  /\ last.kind = "batch"
  /\ \E i \in ItemIds : MarkerRemovedIn(pending, i) /\ HasGlyph(dom[i])

(***************************************************************************)
(* C10: every row or tree item implicated by a record of a batch (its      *)
(* injected image removed, its glyph made visible, the item, its glyph or  *)
(* an edit link in it added) is reconciled exactly once in that batch.     *)
(***************************************************************************)
Implicated(d, batch, i) ==
  /\ d[i].present
  /\ \E m \in Records(batch) :
       \/ m.item = i /\ \E n \in Nodes(m.removed) : MARKER \in n.cls
       \/ /\ m.item = i /\ m.type = "attributes" /\ m.target.tag = "svg"
          /\ HasGlyph(d[i]) /\ Glyph(d[i]).style.visibility # "hidden"
       \/ \E n \in Nodes(m.added) :
            /\ MARKER \notin n.cls
            /\ \/ n.self = i
               \/ i \in n.contains
               \/ m.item = i /\ n.tag \in {"a", "svg"}

C10_ImplicatedOnce ==
  [][HandleBatch =>
       \A i \in ItemIds : Implicated(dom, pending, i) => Times(last'.items, i) = 1]_vars

(***************************************************************************)
(* C11: the observer is attached only after the initial replaceIcons pass  *)
(* has completed; no batch is handled before the observer is attached, and *)
(* no record is queued before then, so that the insertions of the initial  *)
(* pass never reach the handler.                                           *)
(***************************************************************************)
C11_StartupOrdering ==
  [][/\ (phase' = "observing" => phase \in {"initialized", "observing"})
     /\ (last'.kind = "batch" => phase = "observing")
     /\ (phase # "observing" => pending = <<>> /\ pending' = <<>>)
     /\ (last'.kind = "init" => phase = "loaded" /\ phase' = "initialized")]_vars

\* a batch was handled on a page where an item processed earlier keeps its
\* injected image and is not part of the batch
C11_Witness ==
  /\ phase = "observing" /\ last.kind = "batch" /\ last.items # <<>>
  /\ \E i \in ItemIds : MarkerCount(dom[i]) = 1 /\ Times(last.items, i) = 0

(***************************************************************************)
(* C12: when the marker attribute of the other extension is in the         *)
(* document as init runs, the script never changes the DOM and never       *)
(* attaches its observer: every later change of the DOM is a change by the *)
(* page, nothing is injected, nothing is queued, no run takes place.       *)
(***************************************************************************)
C12_ConflictDisables ==
  [][extension =>
       /\ phase' \in {"loaded", "disabled"}
       /\ (dom' # dom => hostOps' = hostOps + 1)
       /\ \A i \in ItemIds : MarkerCount(dom'[i]) = 0
       /\ pending' = <<>>
       /\ last'.kind = "none"]_vars

\* the script has disabled itself and the page went on rendering an item
\* whose name resolves
C12_Witness ==
  /\ extension /\ phase = "disabled" /\ hostOps >= 2
  /\ \E i \in ItemIds : HasGlyph(dom[i]) /\ ~NoIcon(Resolution(ICON_MAPPINGS, dom[i]))

(***************************************************************************)
(* Vocabulary of the resolution properties                                 *)
(***************************************************************************)
\* the table has an entry of its own for the key
HasEntry(table, key) == key \in DOMAIN table
\* the segments of the argument of the call, and the argument without its
\* final segment
CallParts == split(call.arg, DOT)
CallStripped == join(SubSeq(CallParts, 1, Len(CallParts) - 1), DOT)
FileCall == call.fn = "getFileIcon"
FolderCall == call.fn = "getFolderIcon"

(***************************************************************************)
(* C15: for every file name with two or more dot-separated segments and no *)
(* exact entry in the filename table, getFileIcon returns the filename     *)
(* entry of the name without its final segment, if that entry exists,      *)
(* whatever the extension table holds.                                     *)
(***************************************************************************)
C15_StripFinalSegment ==
  (/\ FileCall /\ Len(CallParts) >= 2
   /\ ~HasEntry(ICON_MAPPINGS.filenames, call.arg)
   /\ HasEntry(ICON_MAPPINGS.filenames, CallStripped))
  => call.result = ICON_MAPPINGS.filenames[CallStripped]

\* C15 as amended: the same for the file names with three or more segments
C15_StripFinalSegmentOfThree ==
  (/\ FileCall /\ Len(CallParts) >= 3
   /\ ~HasEntry(ICON_MAPPINGS.filenames, call.arg)
   /\ HasEntry(ICON_MAPPINGS.filenames, CallStripped))
  => call.result = ICON_MAPPINGS.filenames[CallStripped]

\* c.php.d resolved through the entry of c.php while both php and d are
\* extensions of the table
C15_Witness ==
  /\ FileCall /\ call.arg = S_c_php_d
  /\ ~HasEntry(ICON_MAPPINGS.filenames, S_c_php_d)
  /\ HasEntry(ICON_MAPPINGS.filenames, S_c_php)
  /\ HasEntry(ICON_MAPPINGS.extensions, S_php)
  /\ HasEntry(ICON_MAPPINGS.extensions, S_d)
  /\ call.result = IconCPhp

(***************************************************************************)
(* C16: for every file name of three or more segments that has neither an  *)
(* exact filename entry nor an entry for the name without its final        *)
(* segment, the extension entry of the second-to-last segment (compared in *)
(* lower case) is the result whenever it exists, also when the final       *)
(* segment has an extension entry; the entry of the final segment is the   *)
(* result only when the second-to-last segment has none.                   *)
(***************************************************************************)
C16_SecondToLastExtension ==
  (/\ FileCall /\ Len(CallParts) >= 3
   /\ ~HasEntry(ICON_MAPPINGS.filenames, call.arg)
   /\ ~HasEntry(ICON_MAPPINGS.filenames, CallStripped))
  => LET ext == toLowerCase(CallParts[Len(CallParts) - 1])
         suffix == toLowerCase(CallParts[Len(CallParts)])
     IN /\ HasEntry(ICON_MAPPINGS.extensions, ext)
             => call.result = ICON_MAPPINGS.extensions[ext]
        /\ (/\ HasEntry(ICON_MAPPINGS.extensions, suffix) /\ suffix # ext
             /\ call.result = ICON_MAPPINGS.extensions[suffix])
             => ~HasEntry(ICON_MAPPINGS.extensions, ext)

\* c.PHP.d, without filename entries, resolved as php although d is an
\* extension of the table as well
C16_Witness ==
  /\ FileCall /\ call.arg = <<"c", ".", "P", "H", "P", ".", "d">>
  /\ ICON_MAPPINGS.filenames = << >>
  /\ HasEntry(ICON_MAPPINGS.extensions, S_php)
  /\ HasEntry(ICON_MAPPINGS.extensions, S_d)
  /\ call.result = IconPhp

(***************************************************************************)
(* C17: for every folder name that begins with '.' and has no entry of its *)
(* own in the folder table, getFolderIcon returns what it returns for the  *)
(* name without that one leading '.', names with several leading dots      *)
(* included.                                                               *)
(***************************************************************************)
C17_HiddenPrefix ==
  (/\ FolderCall /\ call.arg # <<>> /\ Head(call.arg) = DOT
   /\ ~HasEntry(ICON_MAPPINGS.folders, call.arg))
  => call.result = getFolderIcon(ICON_MAPPINGS, Tail(call.arg))

\* C17 as amended: the same for the names with exactly one leading '.'
C17_HiddenPrefixOneDot ==
  (/\ FolderCall /\ call.arg # <<>> /\ Head(call.arg) = DOT
   /\ ~HasEntry(ICON_MAPPINGS.folders, call.arg)
   /\ Tail(call.arg) # <<>> /\ Head(Tail(call.arg)) # DOT)
  => call.result = getFolderIcon(ICON_MAPPINGS, Tail(call.arg))

\* .gh resolved as gh by a table that has an entry for gh only
C17_Witness ==
  /\ FolderCall /\ call.arg = S_dot_github
  /\ ~HasEntry(ICON_MAPPINGS.folders, S_dot_github)
  /\ HasEntry(ICON_MAPPINGS.folders, S_github)
  /\ call.result = IconGithub

(***************************************************************************)
(* C18: a file name with an entry of its own in the filename table         *)
(* resolves to that entry, whatever the extension table holds for any of   *)
(* its segments.                                                           *)
(***************************************************************************)
C18_ExactFilenameWins ==
  (FileCall /\ HasEntry(ICON_MAPPINGS.filenames, call.arg))
  => call.result = ICON_MAPPINGS.filenames[call.arg]

\* c.php resolved through its filename entry by a table that has the
\* extension php as well
C18_Witness ==
  /\ FileCall /\ call.arg = S_c_php
  /\ HasEntry(ICON_MAPPINGS.filenames, S_c_php)
  /\ HasEntry(ICON_MAPPINGS.extensions, S_php)
  /\ call.result = IconCPhp

(***************************************************************************)
(* C19: getFolderIcon returns the folder entry of the name if there is     *)
(* one; otherwise, only for a name that starts with '.', the folder entry  *)
(* of the name without one leading '.'; otherwise defaultFolder if it is   *)
(* defined; otherwise no icon.  The filename and extension tables never    *)
(* decide the result.                                                      *)
(***************************************************************************)
C19_FolderOrder ==
  FolderCall =>
    LET name == call.arg
        folders == ICON_MAPPINGS.folders
    IN call.result =
         IF HasEntry(folders, name) THEN folders[name]
         ELSE IF Head(name) = DOT /\ HasEntry(folders, Tail(name)) THEN folders[Tail(name)]
         ELSE IF ICON_MAPPINGS.defaultFolder # Undefined THEN ICON_MAPPINGS.defaultFolder
         ELSE Null

(***************************************************************************)
(* C20: a row or tree item whose glyph is a symlink glyph (file symlink or *)
(* directory symlink) gets the symlink icon of the table, whatever its     *)
(* name and whatever the tables and defaults hold: the step on such an     *)
(* item without an image injects one image with that icon, and no image of *)
(* such an item ever carries another icon.                                 *)
(***************************************************************************)
SymlinkGlyph(it) ==
  /\ HasGlyph(it) /\ ~it.upTree
  /\ Glyph(it).cls \cap {"octicon-file-symlink-file", "octicon-file-symlink-directory"} # {}
MarkerSources(it) ==
  {NodeAt(it.kids, Descendants(it.kids)[k]).src : k \in MarkerPaths(it)}

C20_SymlinkIcon ==
  \A i \in ItemIds :
    SymlinkGlyph(dom[i]) =>
      /\ MarkerSources(dom[i]) \subseteq {ICON_MAPPINGS.symlink}
      /\ MarkerCount(dom[i]) = 0 =>
            LET after == Reconcile(ICON_MAPPINGS, dom[i]).item
            IN /\ MarkerCount(after) = 1
               /\ MarkerSources(after) = {ICON_MAPPINGS.symlink}
               /\ GlyphHidden(after)

\* a run has processed the symlink row named i.php, the directory symlink
\* row named src and the symlink tree item named src: each holds the symlink
\* icon, none the php or src icon
C20_Witness ==
  /\ last.kind # "none"
  /\ RowName(dom["r1"]) = S_index_php /\ RowName(dom["r2"]) = S_src
  /\ dom["t1"].layout = "tree"
  /\ \A i \in ItemIds :
       /\ SymlinkGlyph(dom[i])
       /\ Times(last.items, i) = 1
       /\ MarkerSources(dom[i]) = {IconSymlink}

(***************************************************************************)
(* Vocabulary of the properties about unexpected structure                 *)
(***************************************************************************)
\* a candidate that lacks a sub-element the step looks up
LacksSubElement(it) ==
  /\ it.present /\ ~it.upTree
  /\ \/ it.missing # {}
     \/ trim(it.text) = <<>>
     \/ it.layout = "row" /\ \A k \in 1..Len(it.href) : it.href[k] \notin {"blob", "tree"}
     \/ \A k \in 1..Len(it.kids) : it.kids[k].tag # "svg" /\ it.kids[k].kids = <<>>

\* a candidate as GitHub renders it, with a name that resolves
WellFormed(M, it) ==
  /\ it.present /\ ~LacksSubElement(it) /\ HasGlyph(it)
  /\ Glyph(it).style \in {NoStyle, HiddenStyle}
  /\ ~NoIcon(Resolution(M, it))

\* the places of a run's list that come after place k
After(items, k) == {items[j] : j \in (k + 1)..Len(items)}

(***************************************************************************)
(* C13: no run of the script (initial scan, batch) ends with an uncaught   *)
(* error, and every well-formed item of the run's list whose name resolves *)
(* has been reconciled when the run ends, whatever another item of the     *)
(* list did.                                                               *)
(***************************************************************************)
C13_PerNodeIsolation ==
  last.kind # "none" =>
    /\ ~last.threw
    /\ \A k \in 1..Len(last.items) :
         WellFormed(ICON_MAPPINGS, dom[last.items[k]]) => MarkerCount(dom[last.items[k]]) = 1

(***************************************************************************)
(* C14: the step on a candidate that lacks a sub-element (row: no cell, no *)
(* blob/tree link, empty name, no filename column, no glyph; tree item: no *)
(* name span, empty name, no visual container, no glyph) changes nothing   *)
(* and raises no error, and the well-formed items that follow it in the    *)
(* list of a scan or a batch are reconciled in every run that no other     *)
(* item has ended.                                                         *)
(***************************************************************************)
C14_SkipMalformed ==
  /\ \A i \in ItemIds :
       LacksSubElement(dom[i]) => Reconcile(ICON_MAPPINGS, dom[i]) = NoChange(dom[i])
  /\ (last.kind # "none" /\ ~last.threw) =>
       \A k \in 1..Len(last.items) :
         LacksSubElement(dom[last.items[k]]) =>
           \A j \in After(last.items, k) :
             WellFormed(ICON_MAPPINGS, dom[j]) => MarkerCount(dom[j]) = 1

\* a scan has visited a row without cell, then a well-formed row, then a tree
\* item without name span: the two are as the page rendered them, the row in
\* between holds its image
C14_Witness ==
  /\ last.kind = "init" /\ last.items = Items
  /\ dom["r1"] = [GoodRow EXCEPT !.missing = {TD}]
  /\ dom["r2"].kids = <<Hide(FileSvg), createIconImg(IconPhp), NameEl>>
  /\ dom["t1"] = [GoodTreeItem EXCEPT !.missing = {TREE_TEXT_SPAN}]

(***************************************************************************)
(* Vocabulary of the properties about letter case                          *)
(***************************************************************************)
\* the two forms of the letters the names use
LetterPairs == {{"p", "P"}, {"h", "H"}, {"x", "X"}}
SameLetter(c, d) == c = d \/ {c, d} \in LetterPairs
\* a and b are equal ignoring letter case
EqualIgnoringCase(a, b) ==
  Len(a) = Len(b) /\ \A k \in 1..Len(a) : SameLetter(a[k], b[k])
\* no filename lookup returns before the extension lookups of the call
NoFilenameDecides ==
  /\ ~Truthy(Get(ICON_MAPPINGS.filenames, call.arg))
  /\ Len(CallParts) >= 3 => ~Truthy(Get(ICON_MAPPINGS.filenames, CallStripped))
\* the lookup of the second-to-last segment returns
SecondExtDecides ==
  /\ Len(CallParts) >= 3
  /\ Truthy(Get(ICON_MAPPINGS.extensions, toLowerCase(CallParts[Len(CallParts) - 1])))

(***************************************************************************)
(* C21: in getFileIcon an extension lookup that is reached finds the entry *)
(* of every extension key that equals the segment ignoring letter case     *)
(* (the second-to-last segment of a name of three or more segments, the    *)
(* final segment of a name of two or more), and a filename key that        *)
(* differs from the name, or from the name without its final segment, in   *)
(* letter case only never gives its icon to the name.                      *)
(***************************************************************************)
C21_CaseRules ==
  FileCall =>
    /\ \A K \in DOMAIN ICON_MAPPINGS.extensions :
         /\ (/\ NoFilenameDecides /\ Len(CallParts) >= 3
             /\ EqualIgnoringCase(CallParts[Len(CallParts) - 1], K))
              => call.result = ICON_MAPPINGS.extensions[K]
         /\ (/\ NoFilenameDecides /\ Len(CallParts) >= 2 /\ ~SecondExtDecides
             /\ EqualIgnoringCase(CallParts[Len(CallParts)], K))
              => call.result = ICON_MAPPINGS.extensions[K]
    /\ \A k \in DOMAIN ICON_MAPPINGS.filenames :
         (/\ call.arg # k /\ CallStripped # k
          /\ EqualIgnoringCase(call.arg, k) \/ EqualIgnoringCase(CallStripped, k))
           => call.result # ICON_MAPPINGS.filenames[k]

\* c.PHP, beside the filename entry of c.php and the extension entry of php,
\* resolved through the extension
C21_Witness ==
  /\ FileCall /\ call.arg = <<"c", ".", "P", "H", "P">>
  /\ HasEntry(ICON_MAPPINGS.filenames, S_c_php)
  /\ HasEntry(ICON_MAPPINGS.extensions, S_php)
  /\ call.result = IconPhp

(***************************************************************************)
(* C22: in every reachable state the injected image of a non-symlink row   *)
(* whose name link targets a blob path (/owner/repo/blob/...) carries what *)
(* getFileIcon returns for the name of the row, and that of a row whose    *)
(* link targets a tree path what getFolderIcon returns, whatever the       *)
(* directories of the path are called.                                     *)
(***************************************************************************)
\* the kind of the path the link targets: /owner/repo/<kind>/ref/...
LinkKind(href) == href[3]
PlainRow(it) ==
  /\ HasGlyph(it) /\ it.layout = "row" /\ ~it.upTree /\ ~SymlinkGlyph(it)

C22_ClassifiedByLink ==
  \A i \in ItemIds :
    PlainRow(dom[i]) =>
      /\ LinkKind(dom[i].href) = "blob" =>
           MarkerSources(dom[i]) \subseteq {getFileIcon(ICON_MAPPINGS, RowName(dom[i]))}
      /\ LinkKind(dom[i].href) = "tree" =>
           MarkerSources(dom[i]) \subseteq {getFolderIcon(ICON_MAPPINGS, RowName(dom[i]))}

(***************************************************************************)
(* C23: in every reachable state the parent-directory row holds at most    *)
(* one injected image and only one that carries defaultFolder, although    *)
(* the folder table has an entry for the directory its link targets; the   *)
(* step on an unprocessed parent-directory row injects defaultFolder when  *)
(* it is defined, and a second step on the row changes nothing.            *)
(***************************************************************************)
C23_ParentRowDefault ==
  \A i \in ItemIds :
    (dom[i].present /\ dom[i].upTree) =>
      LET first == Reconcile(ICON_MAPPINGS, dom[i])
      IN /\ MarkerCount(dom[i]) <= 1
         /\ MarkerSources(dom[i]) \subseteq {ICON_MAPPINGS.defaultFolder}
         /\ (MarkerCount(dom[i]) = 0 /\ Truthy(ICON_MAPPINGS.defaultFolder))
              => MarkerSources(first.item) = {ICON_MAPPINGS.defaultFolder}
         /\ MarkerSources(first.item) \subseteq {ICON_MAPPINGS.defaultFolder}
         /\ Reconcile(ICON_MAPPINGS, first.item) = NoChange(first.item)

\* a run has processed the parent-directory row once: it holds the default
\* folder icon, while the table has an icon for src, the directory its link
\* targets
C23_Witness ==
  \E i \in ItemIds :
    /\ dom[i].present /\ dom[i].upTree
    /\ dom[i].href[Len(dom[i].href)] = "src"
    /\ HasEntry(ICON_MAPPINGS.folders, S_src)
    /\ Times(last.items, i) = 1
    /\ MarkerSources(dom[i]) = {IconFolder}

(***************************************************************************)
(* C24: in every sequence of calls of getFileIcon and getFolderIcon on one *)
(* table, two calls of the same function with the same name return the     *)
(* same value, whatever calls lie between them, and no call changes the    *)
(* table or anything else of the state.                                    *)
(***************************************************************************)
SameCall(a, b) == a.fn = b.fn /\ a.arg = b.arg

BracesBetween(text, p, q, tok) == Cardinality({r \in p..q : text[r] = tok})

ClosesAt(text, p, q) ==
  /\ text[q] = RB
  /\ BracesBetween(text, p, q, LB) = BracesBetween(text, p, q, RB)
  /\ \A r \in p..(q - 1) :
       BracesBetween(text, p, r, LB) > BracesBetween(text, p, r, RB)

HasMatchingBrace(text, p) == \E q \in (p + 1)..Len(text) : ClosesAt(text, p, q)

EndsAtMatchingBrace(text, b) ==
  HasMatchingBrace(text, b.index) =>
    /\ ~b.skipped
    /\ ClosesAt(text, b.index, b.blockEnd)
    /\ \A q \in b.index..(b.blockEnd - 1) :
         text[q].k = "list" => \E r \in 1..Len(b.block) : b.block[r] = text[q]

ParsedTypeScript ==
  /\ build.step \in {"fetched", "built"}
  /\ build.upstream.fileIconsTs.kind = "ts"
  /\ build.upstream.folderIconsTs.kind = "ts"

C25_BlocksEndAtMatchingBrace ==
  ParsedTypeScript =>
    /\ \A j \in 1..Len(build.fetch.fileBlocks) :
         EndsAtMatchingBrace(build.upstream.fileIconsTs.content,
                             build.fetch.fileBlocks[j])
    /\ \A j \in 1..Len(build.fetch.folderBlocks) :
         EndsAtMatchingBrace(build.upstream.folderIconsTs.content,
                             build.fetch.folderBlocks[j])

(***************************************************************************)
(* C26: when the checkout is in neither known shape (a definitions file    *)
(* is absent, or the TypeScript files hold no file icon definition or no   *)
(* folder icon definition), the fetch ends in failure with an error        *)
(* message and copies no icon; it never ends successfully with a table     *)
(* whose file part or folder part is empty or wrong                        *)
(***************************************************************************)
\* a text holds a definition when a name follows an opening brace with no
\* closing brace in between
HoldsDefinition(text) ==
  \E p \in 1..Len(text), q \in 1..Len(text) :
    /\ p < q
    /\ text[p] = LB
    /\ text[q].k = "name"
    /\ \A r \in p..q : text[r] # RB

FilesAbsent(up) ==
  \/ up.fileIconsTs.kind = "none" /\ up.fileIconsJson.kind = "none"
  \/ up.folderIconsTs.kind = "none" /\ up.folderIconsJson.kind = "none"

NoDefinitions(up) ==
  /\ up.fileIconsTs.kind = "ts"
  /\ up.folderIconsTs.kind = "ts"
  /\ \/ ~HoldsDefinition(up.fileIconsTs.content)
     \/ ~HoldsDefinition(up.folderIconsTs.content)

FetchRan == build.step \in {"fetched", "fetchFailed"}

FetchFailed ==
  /\ build.step = "fetchFailed"
  /\ build.exitCode = 1
  /\ build.fetch.error # ""
  /\ build.cache.icons = {}

C26_FormatMismatchFatal ==
  (FetchRan /\ (FilesAbsent(build.upstream) \/ NoDefinitions(build.upstream)))
    => FetchFailed

(***************************************************************************)
(* C27: after the language supplement every extension that fileIcons.ts    *)
(* defines directly has its direct icon, every other extension that some   *)
(* language id of languageIcons.ts stands for has the icon of the first    *)
(* such id in the order of the file, and no other extension is added       *)
(***************************************************************************)
\* the positions of the language ids that stand for ext
Writers(languageMappings, ext) ==
  {j \in 1..Len(languageMappings) :
     /\ languageMappings[j].langId \in DOMAIN LANGUAGE_TO_EXTENSIONS
     /\ \E k \in 1..Len(LANGUAGE_TO_EXTENSIONS[languageMappings[j].langId]) :
          LANGUAGE_TO_EXTENSIONS[languageMappings[j].langId][k] = ext}

FirstWriter(languageMappings, ext) ==
  CHOOSE j \in Writers(languageMappings, ext) :
    \A k \in Writers(languageMappings, ext) : j <= k

DirectExtensions == NamesOfBlocks(<< >>, build.fetch.fileBlocks)

SupplementApplied ==
  /\ build.step \in {"fetched", "built"}
  /\ build.upstream.fileIconsTs.kind = "ts"
  /\ build.upstream.languageIcons.kind = "ts"

C27_SupplementKeepsDirect ==
  SupplementApplied =>
    \A ext \in {S_php, S_m, S_yaml, S_yml} :
      IF ext \in DOMAIN DirectExtensions
      THEN /\ ext \in DOMAIN build.fetch.fileIcons.fileExtensions
           /\ build.fetch.fileIcons.fileExtensions[ext] = DirectExtensions[ext]
      ELSE IF Writers(build.upstream.languageIcons.content, ext) # {}
      THEN /\ ext \in DOMAIN build.fetch.fileIcons.fileExtensions
           /\ build.fetch.fileIcons.fileExtensions[ext] =
                build.upstream.languageIcons.content[
                  FirstWriter(build.upstream.languageIcons.content, ext)].iconName
      ELSE ext \notin DOMAIN build.fetch.fileIcons.fileExtensions

\* php is defined directly and also by the language php, and objective-c
\* is written before matlab for m
C27_Witness ==
  /\ SupplementApplied
  /\ build.step = "fetched"
  /\ S_php \in DOMAIN DirectExtensions
  /\ S_m \notin DOMAIN DirectExtensions
  /\ build.upstream.languageIcons.content =
       languageMappingsOf(<<"objective-c", "php", "matlab">>)
  /\ build.fetch.fileIcons.fileExtensions[S_php] = "elephant"
  /\ build.fetch.fileIcons.fileExtensions[S_m] = "objective-c"

(***************************************************************************)
(* C28: after a fetch, the icons selected for copying are exactly the      *)
(* icons the fetched tables give to the names of the curated list (the     *)
(* extensions in fileExtensions, the filenames in fileNames, the folders   *)
(* in folderNames), and after the build every key of the built table is a  *)
(* name of the curated list                                                *)
(***************************************************************************)
CuratedIcons(table, names) == {table[x] : x \in names \cap DOMAIN table}

Fetched == build.step \in {"fetched", "built"}

C28_OutputSelection ==
  /\ Fetched =>
       build.fetch.needed =
         CuratedIcons(build.fetch.fileIcons.fileExtensions, priorityList.extensions)
           \cup CuratedIcons(build.fetch.fileIcons.fileNames, priorityList.filenames)
           \cup CuratedIcons(build.fetch.folderIcons.folderNames, priorityList.folders)
  /\ build.step = "built" =>
       /\ DOMAIN build.mappings.extensions \subseteq priorityList.extensions
       /\ DOMAIN build.mappings.filenames \subseteq priorityList.filenames
       /\ DOMAIN build.mappings.folders \subseteq priorityList.folders

\* the tables give icons to php and src, which are curated, and to m and
\* oth, which are not: php and folder-src are selected, and php and src are
\* the keys built
C28_Witness ==
  /\ build.step = "built"
  /\ S_m \in DOMAIN build.fetch.fileIcons.fileExtensions
  /\ S_other \in DOMAIN build.fetch.folderIcons.folderNames
  /\ build.fetch.needed = {"php", "folder-src"}
  /\ DOMAIN build.mappings.extensions = {S_php}
  /\ DOMAIN build.mappings.folders = {S_src}

(***************************************************************************)
(* C29: after a fetch and a build, every curated name that the cached      *)
(* tables with the manual mappings of the build give an icon is a key of   *)
(* the built table with the data URI of that icon, or the icon was         *)
(* reported missing by the fetch; and a missing svg ends neither the fetch *)
(* nor the build in failure                                                *)
(***************************************************************************)
InTableOrReported(table, manual, names, built) ==
  \A x \in names \cap ((DOMAIN table) \cup (DOMAIN manual)) :
    \/ /\ x \in DOMAIN built
       /\ built[x] = svgToDataUri(IF x \in DOMAIN manual THEN manual[x] ELSE table[x])
    \/ (IF x \in DOMAIN manual THEN manual[x] ELSE table[x]) \in build.fetch.missing

C29_MissingReported ==
  /\ (FetchRan /\ build.upstream.fileIconsJson.kind = "json"
        /\ build.upstream.folderIconsJson.kind = "json") => build.step = "fetched"
  /\ build.step = "built" =>
       /\ InTableOrReported(build.fetch.fileIcons.fileExtensions,
                            manualExtensionMappings, priorityList.extensions,
                            build.mappings.extensions)
       /\ InTableOrReported(build.fetch.fileIcons.fileNames,
                            manualFilenameMappings, priorityList.filenames,
                            build.mappings.filenames)
       /\ InTableOrReported(build.fetch.folderIcons.folderNames,
                            NoManualMappings, priorityList.folders,
                            build.mappings.folders)

(***************************************************************************)
(* C30: when the observer handles a batch, every row (div row, table row,  *)
(* folder row) and tree item that is in the document and that a record of  *)
(* the batch reports as added, as the added node itself or inside an added *)
(* container, is reconciled in that batch, once, and holds its image       *)
(* afterwards when it is well formed and the table has an icon for it      *)
(***************************************************************************)
AddedIn(batch, i) ==
  \E m \in Records(batch) : \E n \in Nodes(m.added) :
    MARKER \notin n.cls /\ (n.self = i \/ i \in n.contains)

C30_AddedReconciled ==
  [][HandleBatch =>
       \A i \in ItemIds :
         (dom[i].present /\ AddedIn(pending, i)) =>
           /\ Times(last'.items, i) = 1
           /\ WellFormed(ICON_MAPPINGS, dom[i]) => MarkerCount(dom'[i]) = 1]_vars

(***************************************************************************)
(* C31: a batch that holds only the records of the engine's own writes     *)
(* (the batch handled right after a batch, with no mutation of the page or *)
(* of the other extension in between) writes nothing to the document and   *)
(* queues no record: the engine comes to rest after at most one more batch *)
(***************************************************************************)
OwnRecordsOnly == last.kind = "batch" /\ pending # <<>>

C31_FixedPoint ==
  [][(HandleBatch /\ OwnRecordsOnly) => (dom' = dom /\ pending' = <<>>)]_vars

\* the second batch has run on the records of an inserted image and a
\* hidden glyph, and left the row as the first batch made it
C31_Witness ==
  /\ last.kind = "batch"
  /\ last.batch # <<>>
  /\ \A k \in 1..Len(last.batch) : last.batch[k].item = "r1"
  /\ \E k \in 1..Len(last.batch) :
       \E n \in Nodes(last.batch[k].added) : MARKER \in n.cls
  /\ \E k \in 1..Len(last.batch) : last.batch[k].type = "attributes"
  /\ \A k \in 1..Len(last.batch) :
       \/ last.batch[k].type = "attributes"
       \/ \E n \in Nodes(last.batch[k].added) \cup Nodes(last.batch[k].removed) :
            MARKER \in n.cls
  /\ pending = <<>>
  /\ MarkerCount(dom["r1"]) = 1

(***************************************************************************)
(* C32: when no conflicting extension is present and the engine has come   *)
(* to rest (the observer is attached and no record is waiting), no file or *)
(* folder row whose name resolves to an icon is in the document without    *)
(* its image; this includes the rows the page added between the initial    *)
(* replaceIcons and observer.observe                                       *)
(***************************************************************************)
UnprocessedRow(i) ==
  /\ ~extension
  /\ dom[i].present
  /\ dom[i].layout # "tree" /\ ~dom[i].upTree
  /\ WellFormed(ICON_MAPPINGS, dom[i])
  /\ MarkerCount(dom[i]) = 0
  /\ Glyph(dom[i]).style = NoStyle

\* the observer is attached and every record has been delivered
AtRest == phase = "observing" /\ pending = <<>>

C32_NoRowMissed == AtRest => \A i \in ItemIds : ~UnprocessedRow(i)

(***************************************************************************)
(* C33: when a run of the script (the initial scan or a batch) has ended   *)
(* without an error, every image held by a row or tree item the run has    *)
(* reconciled shows the icon that the item's current name and kind resolve *)
(* to, also when the page has reused the node for another entry            *)
(***************************************************************************)
ShowsResolution(M, it) == MarkerSources(it) \subseteq {Resolution(M, it)}

C33_ImageIsResolution ==
  [][((InitScript \/ HandleBatch) /\ ~last'.threw) =>
       \A i \in ItemIds :
         Times(last'.items, i) > 0 => ShowsResolution(ICON_MAPPINGS, dom'[i])]_vars

(***************************************************************************)
(* C34: the full-page pass of init visits, once each, every element of the *)
(* document that the mutation handler accepts as a candidate: every div    *)
(* row, every table row and every tree item, also when div rows and table  *)
(* rows are in the document together                                       *)
(***************************************************************************)
\* what the addedNodes branch accepts as a node of its own
Candidate(it) == MatchesRow(it) \/ MatchesTreeItem(it)

C34_FullPassCoversCandidates ==
  [][(InitScript /\ ~ConflictDetected(extension)) =>
       \A i \in ItemIds : Candidate(dom[i]) => Times(last'.items, i) = 1]_vars

(***************************************************************************)
(* C35: once the patterns block of an icon definition is expanded, the     *)
(* filename table maps base.ext to the definition's icon for every entry   *)
(* 'base': FileNamePattern.P of the block and every ext of the list that   *)
(* FILE_NAME_PATTERNS holds for P (Ecmascript, Configuration,              *)
(* NodeEcosystem, Yaml)                                                    *)
(***************************************************************************)
\* the extension list FILE_NAME_PATTERNS defines for a pattern kind
ExtensionsOfKind(P) ==
  CASE P = P_Ecmascript -> FILE_NAME_PATTERNS[K_ecmascript]
    [] P = P_Configuration -> FILE_NAME_PATTERNS[K_configuration]
    [] P = P_NodeEcosystem -> FILE_NAME_PATTERNS[K_nodeEcosystem]
    [] P = P_Yaml -> FILE_NAME_PATTERNS[K_yaml]

MapsExpansion(fileNames, entry, iconName) ==
  LET exts == ExtensionsOfKind(entry.kind)
  IN \A k \in 1..Len(exts) :
       LET fullName == entry.base \o <<DOT>> \o exts[k]
       IN fullName \in DOMAIN fileNames /\ fileNames[fullName] = iconName

C35_PatternExpansion ==
  build.step = "expanded" =>
    \A k \in 1..Len(build.entries) :
      MapsExpansion(build.fileNames, build.entries[k], build.iconName)

(***************************************************************************)
(* C36: after the build, a curated extension or filename that the cached   *)
(* upstream tables map to an icon-id whose svg is in cache/icons is built  *)
(* from that icon-id: the manual mappings of the build replace no upstream *)
(* entry                                                                   *)
(***************************************************************************)
BuiltFrom(built, upstream, names, icons) ==
  \A x \in names \cap DOMAIN upstream :
    upstream[x] \in icons =>
      x \in DOMAIN built /\ built[x] = svgToDataUri(upstream[x])

C36_ManualMappingsFillGaps ==
  build.step = "built" =>
    /\ BuiltFrom(build.mappings.extensions,
                 build.cache.fileIcons.content.fileExtensions,
                 priorityList.extensions, build.cache.icons)
    /\ BuiltFrom(build.mappings.filenames,
                 build.cache.fileIcons.content.fileNames,
                 priorityList.filenames, build.cache.icons)

(***************************************************************************)
(* C37: a fetch whose git pull fails in an existing checkout goes on as    *)
(* the fetch does on that checkout as it is; a fetch whose git clone fails *)
(* or whose definitions cannot be parsed ends with exit code 1 and leaves  *)
(* cache/icons as it was; cache/icons changes only in a fetch that has     *)
(* parsed the definitions                                                  *)
(***************************************************************************)
\* the fetch of the step has ended as the pipeline ends on the checkout
\* that was there before it
ContinuedWithExisting ==
  /\ build'.upstream = build.upstream
  /\ build' = [fetchIcons(build) EXCEPT !.sync = "pullFailed"]

StoppedBeforeIcons ==
  /\ build'.step = "fetchFailed"
  /\ build'.exitCode = 1
  /\ build'.cache.icons = build.cache.icons

C37_FetchPipeline ==
  [][SyncAndFetchIcons =>
       /\ build'.sync = "pullFailed" => ContinuedWithExisting
       /\ (build'.sync = "cloneFailed" \/ copyIconConfigs(build'.upstream).threw)
            => StoppedBeforeIcons
       /\ build'.cache.icons # build.cache.icons =>
            /\ build'.step = "fetched"
            /\ ~copyIconConfigs(build'.upstream).threw
            /\ existsSync(build'.cache.fileIcons)]_vars

\* git pull has failed in a checkout that differs from the remote, and the
\* fetch has copied the icons of the existing checkout
C37_Witness ==
  /\ build.sync = "pullFailed"
  /\ build.step = "fetched"
  /\ build.exitCode = 0
  /\ build.upstream # build.remote
  /\ build.fetch.copied = {"php", "folder-src"}
  /\ build.cache.icons = {"git", "php", "folder-src"}

(***************************************************************************)
(* C38: whatever the name, also a name that is a property of               *)
(* Object.prototype such as constructor, getFileIcon and getFolderIcon     *)
(* return no icon or an image payload of the icon table: an own entry of   *)
(* extensions, filenames or folders, or a default                          *)
(***************************************************************************)
OwnValues(obj) == {obj[x] : x \in DOMAIN obj}

TablePayloads(M) ==
  OwnValues(M.extensions) \cup OwnValues(M.filenames) \cup OwnValues(M.folders)
    \cup ({M.defaultFile, M.defaultFolder} \ {Undefined})

C38_ResultFromTable ==
  call.fn \in {"getFileIcon", "getFolderIcon"} =>
    call.result = Null \/ call.result \in TablePayloads(ICON_MAPPINGS)

====
